---- MODULE Spec2Model ----
(***************************************************************************)
(* Tooltip controller, hit-testers and coordinate mapping of the two       *)
(* interactive charts of the ad dashboard:                                 *)
(*   - MatrixChart       (src/src/components/MatrixChart.tsx)              *)
(*   - DailyProfitChart  (src/unnamed/part_003, lines 243-779)             *)
(*                                                                         *)
(* One behaviour follows one mounted chart component; the variable chart   *)
(* says which.  Both components keep the same refs and state under the     *)
(* same names, so they share the variables below.                          *)
(*                                                                         *)
(* Time is in milliseconds.  Matrix pixel coordinates are in units of      *)
(* 1/200 px, which makes the forward mapping ((x + 100) / 200) * width     *)
(* exact for integer data coordinates; stacked-chart coordinates are px.   *)
(***************************************************************************)
EXTENDS Integers, Sequences, FiniteSets, TLC

VARIABLES
    chart,             \* "matrix" | "stacked": the component observed
    now,               \* Date.now(), ms
    pointer,           \* where the pointer is: "out" | "chart" | "tooltip" | "leaving"
    containerSize,     \* containerSize state (matrix) / containerWidth state (stacked)
    chartPointsRef,    \* chartPointsRef.current (matrix): the rendered bubbles
    chartDataLen,      \* chartDataRef.current.length (stacked): the rendered days
    dataVersion,       \* version of the data prop mirrored in chartPointsRef / chartDataRef
    tooltipVisible,    \* tooltipRef.current.style.display = 'block'
    tooltipData,       \* tooltipData state
    tooltipPos,        \* tooltipRef.current.style.left / top
    hideTimeoutRef,    \* hideTimeoutRef.current
    pendingTimers,     \* timers handed to setTimeout and not yet fired or cleared
    isTooltipPinned,   \* isTooltipPinnedRef.current
    lastThrottleTime,  \* lastThrottleTimeRef.current
    lastHovered,       \* lastHoveredPointRef.current / lastHoveredIndexRef.current
    missStart,         \* history: time of the first miss of the current run of misses
    leftAt,            \* history: time the pointer left the chart
    lastHitTest,       \* history: time of the last executed hit-test
    hitMouse,          \* history: pointer position of the last processed hit
    hideCause,         \* history: what scheduled the latest hide still standing;
                       \* "cancelled" once a hit or the panel cleared a pending one
    lastEvent,         \* history: the handler that ran last and its outcome
    layout,            \* the container element's size as laid out (offsetWidth / offsetHeight)
    lastReported,      \* the size the ResizeObserver reported last
    frames,            \* requestAnimationFrame callbacks requested and neither run nor cancelled
    frameId,           \* frameId of the ResizeObserver effect (stacked)
    frameSeq,          \* the id requestAnimationFrame hands out next
    probe,             \* HitSpec, IdxSpec: the pointer position of the one move made
    data,              \* the data prop handed to an aggregation (a list of records)
    computed           \* what the aggregation returned: << >> before it ran, <<value>> after

ctlVars == <<chart, now, pointer, containerSize, chartPointsRef, chartDataLen,
          dataVersion, tooltipVisible,
             tooltipData, tooltipPos, hideTimeoutRef, pendingTimers,
             isTooltipPinned, lastThrottleTime, lastHovered, missStart,
             leftAt, lastHitTest, hitMouse, hideCause, lastEvent,
             layout, lastReported, frames, frameId, frameSeq>>

vars == <<chart, now, pointer, containerSize, chartPointsRef, chartDataLen,
          dataVersion, tooltipVisible,
          tooltipData, tooltipPos, hideTimeoutRef, pendingTimers,
          isTooltipPinned, lastThrottleTime, lastHovered, missStart,
          leftAt, lastHitTest, hitMouse, hideCause, lastEvent,
          layout, lastReported, frames, frameId, frameSeq, probe,
          data, computed>>

(***************************************************************************)
(* Bounds of the model                                                     *)
(***************************************************************************)
Epoch == 1000        \* Date.now() when the component is mounted
Horizon == 600       \* the clock is followed for this many ms
TickMs == 50         \* granularity at which the clock advances
MaxVersion == 1      \* number of re-aggregations followed

MaxTime == Epoch + Horizon

(***************************************************************************)
(* Values that stand for null / unset                                      *)
(***************************************************************************)
NoTimer == -1
NoTime == -1
NoKey == -1
NoFrame == 0
NoData == [key |-> NoKey, ver |-> -1]
NoPos == <<-1, -1>>

Max(a, b) == IF a >= b THEN a ELSE b
Min(a, b) == IF a <= b THEN a ELSE b

(***************************************************************************)
(* Program constants                                                       *)
(***************************************************************************)
GraceMs == 300
MatrixThrottleMs == 150
StackedThrottleMs == 50
TooltipOffset == 15

\* MatrixChart.tsx CHART_MARGIN and the measured recharts offsets
MATRIX_MARGIN == [top |-> 40, right |-> 40, bottom |-> 60, left |-> 60]
RECHARTS_Y_AXIS_WIDTH == 63
RECHARTS_TOP_OFFSET == 9
RECHARTS_BOTTOM_OFFSET == 30

\* DailyProfitChart CHART_MARGIN and the y axis width
STACKED_MARGIN == [top |-> 20, right |-> 30, left |-> 20, bottom |-> 60]
yAxisWidth == 60

\* 1/SubPx px is the unit of matrix pixel coordinates (the 200 of line 323)
SubPx == 200
\* distances beyond FarPx px are saturated (no hit radius reaches 22 px)
FarPx == 100
Infinity == 2000000000

(***************************************************************************)
(* Matrix hit-test (MatrixChart.tsx, handleNativeMouseMove)                *)
(* A bubble is [name, x, y, z]: x, y in data units, z in hundredths.       *)
(* A container size is [width, height] in px; a pointer is <<mx, my>> in   *)
(* 1/SubPx px, relative to the container.                                  *)
(***************************************************************************)
RECURSIVE ISqrtIn(_, _, _)
ISqrtIn(n, lo, hi) ==
    \* largest r in lo..hi with r * r <= n, by bisection
    IF lo >= hi THEN lo
    ELSE LET mid == (lo + hi + 1) \div 2
         IN IF mid * mid <= n THEN ISqrtIn(n, mid, hi) ELSE ISqrtIn(n, lo, mid - 1)

ISqrt(n) == ISqrtIn(n, 0, 46340)

\* getHitRadius, in 1/SubPx px.  area = 60 + ((z - 0.5) / 1.5) * 540, kept in
\* tenths; radius = sqrt(area / pi) with pi = 355/113, rounded down.
GetHitRadius(z) ==
    LET area10 == 600 + ((z - 50) * 5400) \div 150
        radius == ISqrt((area10 * ((SubPx * SubPx) \div 50) * 113) \div 71)
    IN  Max(20 * SubPx, radius + 8 * SubPx)

MatrixChartLeft == MATRIX_MARGIN.left + RECHARTS_Y_AXIS_WIDTH
MatrixChartTop == MATRIX_MARGIN.top + RECHARTS_TOP_OFFSET
MatrixChartWidth(size) ==
    size.width - MATRIX_MARGIN.left - MATRIX_MARGIN.right - RECHARTS_Y_AXIS_WIDTH
MatrixChartHeight(size) ==
    size.height - MATRIX_MARGIN.top - MATRIX_MARGIN.bottom
        - RECHARTS_TOP_OFFSET - RECHARTS_BOTTOM_OFFSET

\* chartWidth <= 0 || chartHeight <= 0 makes the handler return
MatrixGeometryValid(size) ==
    ~(MatrixChartWidth(size) <= 0 \/ MatrixChartHeight(size) <= 0)

PointPixelX(point, size) == SubPx * MatrixChartLeft + (point.x + 100) * MatrixChartWidth(size)
PointPixelY(point, size) == SubPx * MatrixChartTop + (100 - point.y) * MatrixChartHeight(size)

Saturate(d) ==
    IF d > FarPx * SubPx THEN FarPx * SubPx
    ELSE IF d < -(FarPx * SubPx) THEN -(FarPx * SubPx) ELSE d

\* dx * dx + dy * dy
DistSq(mouse, point, size) ==
    LET dx == Saturate(mouse[1] - PointPixelX(point, size))
        dy == Saturate(mouse[2] - PointPixelY(point, size))
    IN  dx * dx + dy * dy

\* the condition under which the loop replaces closestPoint
Closer_NoRadius(distSq, closestDistSq, hitRadius) ==
    distSq < closestDistSq

Closer_LastWins(distSq, closestDistSq, hitRadius) ==
    distSq <= closestDistSq /\ distSq < hitRadius * hitRadius

Closer(distSq, closestDistSq, hitRadius) ==
    distSq < closestDistSq /\ distSq < hitRadius * hitRadius

\* for (const point of points) { ... }: the index of closestPoint, 0 for null
RECURSIVE ClosestLoop(_, _, _, _, _, _)
ClosestLoop(points, i, mouse, size, closest, closestDistSq) ==
    IF i > Len(points) THEN closest
    ELSE LET distSq == DistSq(mouse, points[i], size)
             hitRadius == GetHitRadius(points[i].z)
         IN  IF Closer(distSq, closestDistSq, hitRadius)
             THEN ClosestLoop(points, i + 1, mouse, size, i, distSq)
             ELSE ClosestLoop(points, i + 1, mouse, size, closest, closestDistSq)

ClosestPoint(points, mouse, size) == ClosestLoop(points, 1, mouse, size, 0, Infinity)

(***************************************************************************)
(* Stacked hit-test (DailyProfitChart, handleNativeMouseMove)              *)
(* x and containerWidth are in px; numDays = chartData.length.             *)
(***************************************************************************)
StackedChartLeft == STACKED_MARGIN.left + yAxisWidth
StackedChartRight(containerWidth) == containerWidth - STACKED_MARGIN.right
StackedChartWidth(containerWidth) == StackedChartRight(containerWidth) - StackedChartLeft

\* x < chartLeft || x > chartRight || chartWidth <= 0
Outside(x, containerWidth) ==
    \/ x < StackedChartLeft
    \/ x > StackedChartRight(containerWidth)
    \/ StackedChartWidth(containerWidth) <= 0

RECURSIVE Pow2(_)
Pow2(e) == IF e <= 0 THEN 1 ELSE 2 * Pow2(e - 1)

RECURSIVE CeilLog2From(_, _)
CeilLog2From(k, e) == IF Pow2(e) >= k THEN e ELSE CeilLog2From(k, e + 1)
CeilLog2(k) == CeilLog2From(k, 0)

RECURSIVE LeadShift(_, _, _)
LeadShift(a, b, s) == IF Pow2(s) * a >= b THEN s ELSE LeadShift(a, b, s + 1)

\* binary long division: i more quotient bits of rem / b; <<remainder, last bit>>
RECURSIVE DivBits(_, _, _, _)
DivBits(rem, b, i, bit) ==
    IF i = 0 THEN <<rem, bit>>
    ELSE IF 2 * rem >= b THEN DivBits(2 * rem - b, b, i - 1, 1)
         ELSE DivBits(2 * rem, b, i - 1, 0)

\* Math.floor((relativeX / chartWidth) * numDays) in IEEE-754 double
\* arithmetic, for integers 0 <= relativeX <= chartWidth, numDays >= 1.
\* The quotient a/b is rounded to 53 significant bits (ties to even) and
\* the product is rounded again.  Both errors are below 2^-52 relative, so
\* the floor differs from that of the exact value only where the exact
\* value is an integer k and the rounded product falls below k: the
\* quotient was rounded down by r/b units of its last place, and the
\* deficit numDays * (r/b) * 2^-(s+52) exceeds half the spacing 2^(e-52)
\* of the doubles below k.
FloorIndex(relativeX, chartWidth, numDays) ==
    LET exact == (relativeX * numDays) \div chartWidth
    IN  IF (relativeX * numDays) % chartWidth # 0 \/ relativeX = 0 \/ relativeX = chartWidth
        THEN exact
        ELSE LET s == LeadShift(relativeX, chartWidth, 1)
                 d == DivBits(Pow2(s) * relativeX - chartWidth, chartWidth, 52, 1)
                 r == d[1]
                 roundedDown == r # 0 /\ (2 * r < chartWidth \/ (2 * r = chartWidth /\ d[2] = 0))
                 e == CeilLog2(exact) - 1
             IN  IF roundedDown /\ 2 * numDays * r > chartWidth * Pow2(e + s)
                 THEN exact - 1 ELSE exact

\* relativeX, index and clampedIndex of the handler
ClampedIndex(x, containerWidth, numDays) ==
    LET relativeX == x - StackedChartLeft
        index == FloorIndex(relativeX, StackedChartWidth(containerWidth), numDays)
    IN  Max(0, Min(numDays - 1, index))

(***************************************************************************)
(* The mounted chart: rendered data, container sizes and pointer positions *)
(* the environment chooses from                                            *)
(***************************************************************************)
\* chartPointsRef.current: two bubbles, names 1 and 2
CtlPoints == << [name |-> 1, x |-> 0, y |-> 50, z |-> 100],
                [name |-> 2, x |-> 60, y |-> -50, z |-> 200] >>

\* the container before layout and laid out
CtlMatrixSizes == { [width |-> 0, height |-> 0], [width |-> 600, height |-> 480] }
CtlStackedSizes == { [width |-> 0, height |-> 0], [width |-> 410, height |-> 400] }

\* chartDataRef.current.length
CtlDays == 3

\* pointer positions: on bubble 1 (centre, and 5 px right of it), on bubble 2,
\* and in a gap
CtlMatrixMouse(size) ==
    { <<PointPixelX(CtlPoints[1], size), PointPixelY(CtlPoints[1], size)>>,
      <<PointPixelX(CtlPoints[1], size) + 5 * SubPx, PointPixelY(CtlPoints[1], size)>>,
      <<PointPixelX(CtlPoints[2], size), PointPixelY(CtlPoints[2], size)>>,
      <<130 * SubPx, 60 * SubPx>> }

\* pointer positions: left of the plot area, inside three columns
CtlStackedMouse == { <<50, 100>>, <<130, 100>>, <<180, 120>>, <<380, 100>> }

(***************************************************************************)
(* Tooltip controller: the pieces of the handlers                          *)
(***************************************************************************)
\* if (isTooltipPinnedRef.current) return;
MoveIgnored_Never(pinned) == FALSE

MoveIgnored(pinned) == pinned

\* if (now - lastThrottleTimeRef.current < interval) return;
Throttled_Never(elapsed, interval) == FALSE

Throttled(elapsed, interval) == elapsed < interval

\* setTimeout(..., 300): when the callback is due
HideDeadline_Late(t) == t + 2 * GraceMs

HideDeadline(t) == t + GraceMs

\* if (lastHoveredRef.current !== key)
ContentReplaced_Always(last, key) == TRUE

ContentReplaced_Never(last, key) == last = NoKey

ContentReplaced(last, key) == last # key

ClearedTimers_Kept(ref, timers) == timers

\* clearHideTimeout: the timers left pending
ClearedTimers(ref, timers) == IF ref # NoTimer THEN timers \ {ref} ELSE timers

ClearHideTimeout ==
    /\ pendingTimers' = ClearedTimers(hideTimeoutRef, pendingTimers)
    /\ hideTimeoutRef' = NoTimer

\* scheduleHide: clearHideTimeout(); hideTimeoutRef.current = setTimeout(..., 300)
ScheduleHide ==
    /\ pendingTimers' = ClearedTimers(hideTimeoutRef, pendingTimers) \cup {HideDeadline(now)}
    /\ hideTimeoutRef' = HideDeadline(now)

\* the hit branch: clearHideTimeout(); display, left, top; content on a new key
ShowTooltip(key, mouse, offset) ==
    /\ ClearHideTimeout
    /\ tooltipVisible' = TRUE
    /\ tooltipPos' = <<mouse[1] + offset, mouse[2] + offset>>
    /\ IF ContentReplaced(lastHovered, key)
       THEN /\ lastHovered' = key
            /\ tooltipData' = [key |-> key, ver |-> dataVersion]
       ELSE UNCHANGED <<lastHovered, tooltipData>>

\* where the matrix handler leaves: "pinned", "throttled", "noPoints",
\* "noGeometry", "hit" or "miss"
MatrixOutcome(mouse) ==
    IF MoveIgnored(isTooltipPinned) THEN "pinned"
    ELSE IF Throttled(now - lastThrottleTime, MatrixThrottleMs) THEN "throttled"
    ELSE IF Len(chartPointsRef) = 0 THEN "noPoints"
    ELSE IF ~MatrixGeometryValid(containerSize) THEN "noGeometry"
    ELSE IF ClosestPoint(chartPointsRef, mouse, containerSize) # 0 THEN "hit"
    ELSE "miss"

\* where the stacked handler leaves
StackedOutcome(mouse) ==
    IF MoveIgnored(isTooltipPinned) THEN "pinned"
    ELSE IF Throttled(now - lastThrottleTime, StackedThrottleMs) THEN "throttled"
    ELSE IF chartDataLen = 0 THEN "noPoints"
    ELSE IF Outside(mouse[1], containerSize.width) THEN "miss"
    ELSE "hit"

\* history kept by a pointer move inside the chart
MoveHistory(mouse, outcome) ==
    /\ pointer' = IF pointer = "tooltip" THEN "tooltip" ELSE "chart"
    /\ leftAt' = NoTime
    /\ lastEvent' = outcome
    /\ lastHitTest' = IF outcome \in {"hit", "miss"} THEN now ELSE lastHitTest
    /\ hitMouse' = IF outcome = "hit" THEN mouse ELSE hitMouse
    /\ hideCause' = CASE outcome = "hit" ->
                               IF hideTimeoutRef \in pendingTimers THEN "cancelled" ELSE "none"
                      [] outcome = "miss" -> "miss"
                      [] OTHER -> hideCause
    /\ missStart' = CASE outcome = "hit" -> NoTime
                      [] outcome = "miss" /\ tooltipVisible /\ missStart = NoTime -> now
                      [] OTHER -> missStart

Passive == UNCHANGED <<chart, containerSize, chartPointsRef, chartDataLen, probe,
                       data, computed, layout, lastReported, frames, frameId, frameSeq>>

(***************************************************************************)
(* Tooltip controller: the handlers                                        *)
(***************************************************************************)
\* MatrixChart handleNativeMouseMove
MatrixMouseMove(mouse) ==
    /\ chart = "matrix"
    /\ pointer \in {"out", "chart", "tooltip"}
    /\ LET outcome == MatrixOutcome(mouse)
       IN  /\ lastThrottleTime' = IF outcome \in {"pinned", "throttled"}
                                  THEN lastThrottleTime ELSE now
           /\ CASE outcome = "hit" ->
                     ShowTooltip(chartPointsRef[ClosestPoint(chartPointsRef, mouse, containerSize)].name,
                                 mouse, TooltipOffset * SubPx)
                [] outcome = "miss" ->
                     /\ ScheduleHide
                     /\ UNCHANGED <<tooltipVisible, tooltipPos, tooltipData, lastHovered>>
                [] OTHER ->
                     UNCHANGED <<tooltipVisible, tooltipPos, tooltipData, lastHovered,
                                 hideTimeoutRef, pendingTimers>>
           /\ MoveHistory(mouse, outcome)
    /\ UNCHANGED <<now, dataVersion, isTooltipPinned>>
    /\ Passive

\* DailyProfitChart handleNativeMouseMove
StackedMouseMove(mouse) ==
    /\ chart = "stacked"
    /\ pointer \in {"out", "chart", "tooltip"}
    /\ LET outcome == StackedOutcome(mouse)
       IN  /\ lastThrottleTime' = IF outcome \in {"pinned", "throttled"}
                                  THEN lastThrottleTime ELSE now
           /\ CASE outcome = "hit" ->
                     ShowTooltip(ClampedIndex(mouse[1], containerSize.width, chartDataLen),
                                 mouse, TooltipOffset)
                [] outcome = "miss" ->
                     /\ ScheduleHide
                     /\ UNCHANGED <<tooltipVisible, tooltipPos, tooltipData, lastHovered>>
                [] OTHER ->
                     UNCHANGED <<tooltipVisible, tooltipPos, tooltipData, lastHovered,
                                 hideTimeoutRef, pendingTimers>>
           /\ MoveHistory(mouse, outcome)
    /\ UNCHANGED <<now, dataVersion, isTooltipPinned>>
    /\ Passive

\* MatrixChart onMouseLeave={scheduleHide}
MatrixMouseLeave ==
    /\ chart = "matrix"
    /\ pointer \in {"chart", "leaving"}
    /\ ScheduleHide
    /\ hideCause' = "leave"
    /\ pointer' = "out"
    /\ leftAt' = now
    /\ missStart' = NoTime
    /\ lastEvent' = "chartLeave"
    /\ UNCHANGED <<now, dataVersion, tooltipVisible, tooltipData, tooltipPos,
                   isTooltipPinned, lastThrottleTime, lastHovered, lastHitTest, hitMouse>>
    /\ Passive

\* DailyProfitChart handleChartMouseLeave
StackedMouseLeave ==
    /\ chart = "stacked"
    /\ pointer \in {"chart", "leaving"}
    /\ IF ~isTooltipPinned
       THEN ScheduleHide /\ hideCause' = "leave"
       ELSE UNCHANGED <<hideTimeoutRef, pendingTimers, hideCause>>
    /\ pointer' = "out"
    /\ leftAt' = now
    /\ missStart' = NoTime
    /\ lastEvent' = "chartLeave"
    /\ UNCHANGED <<now, dataVersion, tooltipVisible, tooltipData, tooltipPos,
                   isTooltipPinned, lastThrottleTime, lastHovered, lastHitTest, hitMouse>>
    /\ Passive

\* handleTooltipMouseEnter: the panel exists only while the tooltip is displayed
TooltipMouseEnter ==
    /\ pointer \in {"chart", "out"}
    /\ tooltipVisible
    /\ ClearHideTimeout
    /\ isTooltipPinned' = TRUE
    /\ pointer' = "tooltip"
    /\ leftAt' = NoTime
    /\ missStart' = NoTime
    /\ lastEvent' = "tooltipEnter"
    /\ hideCause' = IF hideTimeoutRef \in pendingTimers THEN "cancelled" ELSE "none"
    /\ UNCHANGED <<now, dataVersion, tooltipVisible, tooltipData, tooltipPos,
                   lastThrottleTime, lastHovered, lastHitTest, hitMouse>>
    /\ Passive

\* handleTooltipMouseLeave; when the pointer leaves the chart as well, the
\* chart's mouseleave is dispatched next, before anything else runs
TooltipMouseLeave(to) ==
    /\ pointer = "tooltip"
    /\ isTooltipPinned' = FALSE
    /\ ScheduleHide
    /\ pointer' = IF to = "chart" THEN "chart" ELSE "leaving"
    /\ lastEvent' = "tooltipLeave"
    /\ hideCause' = "unpin"
    /\ UNCHANGED <<now, dataVersion, tooltipVisible, tooltipData, tooltipPos,
                   lastThrottleTime, lastHovered, missStart, leftAt, lastHitTest, hitMouse>>
    /\ Passive

\* if (!isTooltipPinnedRef.current) in the timer callback
CallbackHides_Never(pinned) == FALSE

CallbackHides(pinned) == ~pinned

\* the callback handed to setTimeout by scheduleHide
HideTimeoutFires(d) ==
    /\ d \in pendingTimers
    /\ d <= now
    /\ pointer # "leaving"
    /\ pendingTimers' = pendingTimers \ {d}
    /\ IF CallbackHides(isTooltipPinned)
       THEN /\ tooltipData' = NoData
            /\ lastHovered' = NoKey
            /\ tooltipVisible' = FALSE
            /\ missStart' = NoTime
            /\ lastEvent' = IF tooltipVisible THEN "timerHide" ELSE "timerIdle"
       ELSE /\ UNCHANGED <<tooltipData, lastHovered, tooltipVisible, missStart>>
            /\ lastEvent' = "timerNoop"
    /\ UNCHANGED <<now, pointer, dataVersion, tooltipPos, hideTimeoutRef,
                   isTooltipPinned, lastThrottleTime, leftAt, lastHitTest, hitMouse,
                   hideCause>>
    /\ Passive

\* the data prop changes: chartData is recomputed and the effect stores it in
\* chartPointsRef / chartDataRef
DataChange ==
    /\ pointer # "leaving"
    /\ dataVersion < MaxVersion
    /\ dataVersion' = dataVersion + 1
    /\ lastEvent' = "data"
    /\ UNCHANGED <<now, pointer, tooltipVisible, tooltipData, tooltipPos,
                   hideTimeoutRef, pendingTimers, isTooltipPinned, lastThrottleTime,
                   lastHovered, missStart, leftAt, lastHitTest, hitMouse, hideCause>>
    /\ Passive

\* time passes, up to the next timer that is due: a due timer runs before the
\* clock moves on
NextInstant(t, timers) ==
    LET cands == {t + TickMs} \cup {d \in timers : d > t}
    IN  CHOOSE c \in cands : \A o \in cands : c <= o

Tick ==
    /\ pointer # "leaving"
    /\ now < MaxTime
    /\ \A d \in pendingTimers : d > now
    /\ now' = Min(MaxTime, NextInstant(now, pendingTimers))
    /\ lastEvent' = "tick"
    /\ UNCHANGED <<pointer, dataVersion, tooltipVisible, tooltipData, tooltipPos,
                   hideTimeoutRef, pendingTimers, isTooltipPinned, lastThrottleTime,
                   lastHovered, missStart, leftAt, lastHitTest, hitMouse, hideCause>>
    /\ Passive

\* the refs and state of a component right after mount
Mounted ==
    /\ now = Epoch
    /\ pointer = "out"
    /\ dataVersion = 0
    /\ tooltipVisible = FALSE
    /\ tooltipData = NoData
    /\ tooltipPos = NoPos
    /\ hideTimeoutRef = NoTimer
    /\ pendingTimers = {}
    /\ isTooltipPinned = FALSE
    /\ lastThrottleTime = 0
    /\ lastHovered = NoKey
    /\ missStart = NoTime
    /\ leftAt = NoTime
    /\ lastHitTest = NoTime
    /\ hitMouse = NoPos
    /\ hideCause = "none"
    /\ lastEvent = "init"
    /\ frames = {}
    /\ frameId = NoFrame
    /\ frameSeq = 1

\* the container has its final size, and that size has been observed and stored
Settled ==
    /\ layout = containerSize
    /\ lastReported = containerSize

Init ==
    /\ chart \in {"matrix", "stacked"}
    /\ containerSize \in (IF chart = "matrix" THEN CtlMatrixSizes ELSE CtlStackedSizes)
    /\ chartPointsRef = (IF chart = "matrix" THEN CtlPoints ELSE << >>)
    /\ chartDataLen = (IF chart = "matrix" THEN 0 ELSE CtlDays)
    /\ probe = NoPos
    /\ data = << >>
    /\ computed = << >>
    /\ Mounted
    /\ Settled

Next ==
    \/ \E mouse \in CtlMatrixMouse(containerSize) : MatrixMouseMove(mouse)
    \/ \E mouse \in CtlStackedMouse : StackedMouseMove(mouse)
    \/ MatrixMouseLeave
    \/ StackedMouseLeave
    \/ TooltipMouseEnter
    \/ \E to \in {"chart", "out"} : TooltipMouseLeave(to)
    \/ \E d \in pendingTimers : HideTimeoutFires(d)
    \/ DataChange
    \/ Tick

Spec == Init /\ [][Next]_vars

(***************************************************************************)
(* HitSpec: one pointer move of the matrix chart, over bounded sets of     *)
(* rendered bubbles, container sizes and pointer positions                 *)
(***************************************************************************)
MaxPoints == 2

\* bubbles 0.5 px apart at width 263, a stalled loser, smallest and largest z
HitShapes == { [x |-> 0, y |-> 50, z |-> 80], [x |-> 0, y |-> 50, z |-> 200],
               [x |-> 1, y |-> 50, z |-> 80], [x |-> 1, y |-> 50, z |-> 200],
               [x |-> -95, y |-> -75, z |-> 80] }

\* creative names are unique: bubble i is named i
HitPointLists ==
    UNION { { [i \in 1..n |-> [name |-> i, x |-> f[i].x, y |-> f[i].y, z |-> f[i].z]] :
                f \in [1..n -> HitShapes] } : n \in 1..MaxPoints }

HitSizes == { [width |-> 0, height |-> 0], [width |-> 263, height |-> 339],
              [width |-> 600, height |-> 480] }

\* horizontal offsets from a bubble centre, px
HitOffsets == {-22, -21, -20, -19, 0, 19, 20, 21, 22}

HitProbes(ps, size) ==
    { <<PointPixelX(ps[i], size) + dx * SubPx, PointPixelY(ps[i], size)>> :
         i \in 1..Len(ps), dx \in HitOffsets }

HitInit ==
    /\ chart = "matrix"
    /\ containerSize \in HitSizes
    /\ chartPointsRef \in HitPointLists
    /\ chartDataLen = 0
    /\ probe \in HitProbes(chartPointsRef, containerSize)
    /\ data = << >>
    /\ computed = << >>
    /\ Mounted
    /\ Settled

HitNext == lastEvent = "init" /\ MatrixMouseMove(probe)

HitSpec == HitInit /\ [][HitNext]_vars

(***************************************************************************)
(* IdxSpec: one pointer move of the stacked chart, over bounded sets of    *)
(* container widths, numbers of days and pointer positions                 *)
(***************************************************************************)
IdxSizes == { [width |-> w, height |-> 400] : w \in {0, 100, 330, 410} }
IdxDays == {1, 2, 3, 7, 22}

\* the column boundaries that fall on a whole pixel, their neighbours, and
\* positions left and right of the plot area
IdxProbes(containerWidth, days) ==
    LET w == StackedChartWidth(containerWidth)
        bounds == IF w <= 0 THEN {StackedChartLeft}
                  ELSE {StackedChartLeft + (k * w) \div days :
                           k \in {j \in 0..days : (j * w) % days = 0}}
    IN  { <<b + dx, 100>> : b \in bounds, dx \in {-1, 0, 1} }
           \cup { <<0, 100>>, <<containerWidth, 100>> }

IdxInit ==
    /\ chart = "stacked"
    /\ containerSize \in IdxSizes
    /\ chartPointsRef = << >>
    /\ chartDataLen \in IdxDays
    /\ probe \in IdxProbes(containerSize.width, chartDataLen)
    /\ data = << >>
    /\ computed = << >>
    /\ Mounted
    /\ Settled

IdxNext == lastEvent = "init" /\ StackedMouseMove(probe)

IdxSpec == IdxInit /\ [][IdxNext]_vars

(***************************************************************************)
(* ResizeSpec: the container is resized by the surrounding layout while    *)
(* the pointer moves over the chart.                                       *)
(*   MatrixChart      useEffect at lines 224-238: updateSize on mount and  *)
(*                    as the ResizeObserver callback                       *)
(*   DailyProfitChart useEffect at part_003 lines 485-512: the observer's  *)
(*                    callback requests an animation frame that stores     *)
(*                    entry.contentRect.width                              *)
(* A state update and the render that hands the new state to the handlers  *)
(* are one step.                                                           *)
(***************************************************************************)
MaxFrames == 3       \* animation frames requested in one behaviour
RszHorizon == 300    \* ResizeSpec follows the clock for this many ms

\* sizes the layout gives the container: not laid out, and laid out
RszMatrixSizes == { [width |-> 0, height |-> 0], [width |-> 600, height |-> 480] }
RszStackedSizes == { [width |-> 0, height |-> 0], [width |-> 410, height |-> 400],
                     [width |-> 610, height |-> 400] }
RszSizes == IF chart = "matrix" THEN RszMatrixSizes ELSE RszStackedSizes

\* if (frameId) cancelAnimationFrame(frameId): the callbacks left pending
CancelledFrames_Never(id, pending) == pending

CancelledFrames(id, pending) ==
    IF id # NoFrame THEN {f \in pending : f.id # id} ELSE pending

\* the surrounding layout gives the container another size.  Only the
\* observer reads the laid-out size, so the sizes the container passes
\* through between two of its reports are left out.
Resize(size) ==
    /\ layout = lastReported
    /\ size # layout
    /\ layout' = size
    /\ lastEvent' = "resize"
    /\ UNCHANGED <<chart, now, pointer, containerSize, chartPointsRef, chartDataLen,
                   dataVersion, tooltipVisible, tooltipData, tooltipPos,
                   hideTimeoutRef, pendingTimers, isTooltipPinned, lastThrottleTime,
                   lastHovered, missStart, leftAt, lastHitTest, hitMouse, hideCause,
                   lastReported, frames, frameId, frameSeq, probe, data, computed>>

\* the ResizeObserver callback: updateSize (matrix); cancel the frame
\* requested before and request one that stores the entry's width (stacked)
ResizeObserved ==
    /\ layout # lastReported
    /\ lastReported' = layout
    /\ IF chart = "matrix"
       THEN /\ containerSize' = [width |-> layout.width, height |-> layout.height]
            /\ UNCHANGED <<frames, frameId, frameSeq>>
       ELSE /\ frameSeq <= MaxFrames
            /\ frames' = CancelledFrames(frameId, frames)
                             \cup {[id |-> frameSeq, width |-> layout.width]}
            /\ frameId' = frameSeq
            /\ frameSeq' = frameSeq + 1
            /\ UNCHANGED containerSize
    /\ lastEvent' = "observed"
    /\ UNCHANGED <<chart, now, pointer, chartPointsRef, chartDataLen,
                   dataVersion, tooltipVisible, tooltipData, tooltipPos,
                   hideTimeoutRef, pendingTimers, isTooltipPinned, lastThrottleTime,
                   lastHovered, missStart, leftAt, lastHitTest, hitMouse, hideCause,
                   layout, probe, data, computed>>

\* the browser runs the callback requested first:
\* setContainerWidth(entry.contentRect.width)
AnimationFrame(f) ==
    /\ f \in frames
    /\ \A g \in frames : f.id <= g.id
    /\ frames' = frames \ {f}
    /\ containerSize' = [containerSize EXCEPT !.width = f.width]
    /\ lastEvent' = "frame"
    /\ UNCHANGED <<chart, now, pointer, chartPointsRef, chartDataLen,
                   dataVersion, tooltipVisible, tooltipData, tooltipPos,
                   hideTimeoutRef, pendingTimers, isTooltipPinned, lastThrottleTime,
                   lastHovered, missStart, leftAt, lastHitTest, hitMouse, hideCause,
                   layout, lastReported, frameId, frameSeq, probe, data, computed>>

\* right after mount: the matrix chart has stored the size by updateSize(),
\* the stacked chart holds useState(0); the observer has reported nothing
ResizeInit ==
    /\ chart \in {"matrix", "stacked"}
    /\ layout \in RszSizes
    /\ containerSize = (IF chart = "matrix" THEN layout ELSE [width |-> 0, height |-> 0])
    /\ lastReported = [width |-> 0, height |-> 0]
    /\ chartPointsRef = (IF chart = "matrix" THEN CtlPoints ELSE << >>)
    /\ chartDataLen = (IF chart = "matrix" THEN 0 ELSE CtlDays)
    /\ probe = NoPos
    /\ data = << >>
    /\ computed = << >>
    /\ Mounted

ResizeNext ==
    \/ \E mouse \in CtlMatrixMouse(containerSize) : MatrixMouseMove(mouse)
    \/ \E mouse \in CtlStackedMouse : StackedMouseMove(mouse)
    \/ \E d \in pendingTimers : HideTimeoutFires(d)
    \/ now < Epoch + RszHorizon /\ Tick
    \/ \E size \in RszSizes : Resize(size)
    \/ ResizeObserved
    \/ \E f \in frames : AnimationFrame(f)

ResizeSpec == ResizeInit /\ [][ResizeNext]_vars

(***************************************************************************)
(* DailyProfitChart: the aggregation of the stacked chart (part_003,       *)
(* useMemo at lines 514-630).                                              *)
(* A record is [date, creativeName, profit].  A date is a whole number:    *)
(* 0 is the empty string, d > 0 is a day written with '-', and -d is the   *)
(* same day written with '/'.  A creative name is a whole number, 0 the    *)
(* empty string.  Profits are whole amounts.                               *)
(* A Map is the sequence of its <<key, value>> entries in insertion order. *)
(***************************************************************************)
MAX_SLOTS == 15
COLORS == << "#0b7f7b", "#3b82f6", "#8b5cf6", "#ec4899", "#f59e0b",
             "#10b981", "#6366f1", "#ef4444", "#14b8a6", "#f97316",
             "#84cc16", "#06b6d4", "#a855f7", "#22c55e", "#eab308" >>

NoDate == 0
EmptyName == 0
Unclassified == 99

MapHas(m, k) == \E i \in 1..Len(m) : m[i][1] = k
MapGet(m, k) == m[CHOOSE i \in 1..Len(m) : m[i][1] = k][2]
MapSet(m, k, v) ==
    IF MapHas(m, k)
    THEN [i \in 1..Len(m) |-> IF m[i][1] = k THEN <<k, v>> ELSE m[i]]
    ELSE Append(m, <<k, v>>)
\* map.get(k) || 0
MapGetOr0(m, k) == IF MapHas(m, k) THEN MapGet(m, k) ELSE 0

\* item.date.replace(/\//g, '-')
NormalizeDate(date) == IF date < 0 THEN -date ELSE date
\* item.creativeName || '(unclassified)'
NameOrUnclassified(name) == IF name = EmptyName THEN Unclassified ELSE name

Accumulate_Overwrite(currentProfit, profit) == profit

\* dayData.set(creativeName, currentProfit + item.profit)
Accumulate(currentProfit, profit) == currentProfit + profit

\* data.forEach: the per-day sums, dailyMap
RECURSIVE DailyMapLoop(_, _, _)
DailyMapLoop(records, i, dailyMap) ==
    IF i > Len(records) THEN dailyMap
    ELSE LET item == records[i]
             normalizedDate == NormalizeDate(item.date)
             creativeName == NameOrUnclassified(item.creativeName)
             dayData == IF MapHas(dailyMap, normalizedDate)
                        THEN MapGet(dailyMap, normalizedDate) ELSE << >>
             currentProfit == MapGetOr0(dayData, creativeName)
         IN  IF item.date = NoDate
             THEN DailyMapLoop(records, i + 1, dailyMap)
             ELSE DailyMapLoop(records, i + 1,
                     MapSet(dailyMap, normalizedDate,
                            MapSet(dayData, creativeName, Accumulate(currentProfit, item.profit))))

\* data.forEach: creativeSet, the names in order of first appearance
RECURSIVE CreativeSetLoop(_, _, _)
CreativeSetLoop(records, i, creativeSet) ==
    IF i > Len(records) THEN creativeSet
    ELSE LET creativeName == NameOrUnclassified(records[i].creativeName)
         IN  IF records[i].date = NoDate \/ \E j \in 1..Len(creativeSet) : creativeSet[j] = creativeName
             THEN CreativeSetLoop(records, i + 1, creativeSet)
             ELSE CreativeSetLoop(records, i + 1, Append(creativeSet, creativeName))

\* the total of a creative over the days of dailyMap, from day i on
RECURSIVE ProfitTotalFrom(_, _, _)
ProfitTotalFrom(dailyMap, name, i) ==
    IF i > Len(dailyMap) THEN 0
    ELSE MapGetOr0(dailyMap[i][2], name) + ProfitTotalFrom(dailyMap, name, i + 1)

ProfitTotal_FirstDay(dailyMap, name) ==
    IF Len(dailyMap) = 0 THEN 0 ELSE MapGetOr0(dailyMap[1][2], name)

\* creativeProfitTotals.get(name)
ProfitTotal(dailyMap, name) == ProfitTotalFrom(dailyMap, name, 1)

\* Array.prototype.sort((a, b) => b.profit - a.profit): stable, descending
InsertByProfit(sorted, c) ==
    LET k == Cardinality({i \in 1..Len(sorted) : sorted[i].profit >= c.profit})
    IN  SubSeq(sorted, 1, k) \o <<c>> \o SubSeq(sorted, k + 1, Len(sorted))
RECURSIVE SortByProfitDesc(_)
SortByProfitDesc(s) ==
    IF Len(s) = 0 THEN << >>
    ELSE InsertByProfit(SortByProfitDesc(SubSeq(s, 1, Len(s) - 1)), s[Len(s)])

\* sortedCreatives: the names ordered by total profit, descending
SortedCreatives(creativeSet, dailyMap) ==
    LET totals == [i \in 1..Len(creativeSet) |->
                      [name |-> creativeSet[i], profit |-> ProfitTotal(dailyMap, creativeSet[i])]]
        sorted == SortByProfitDesc(totals)
    IN  [i \in 1..Len(sorted) |-> sorted[i].name]

\* index % COLORS.length
ColorIndex(index) == index % Len(COLORS)

\* colorMap[name] = COLORS[index % COLORS.length]
ColorMap(sortedCreatives) ==
    [name \in {sortedCreatives[i] : i \in 1..Len(sortedCreatives)} |->
        COLORS[ColorIndex((CHOOSE i \in 1..Len(sortedCreatives) : sortedCreatives[i] = name) - 1) + 1]]

InsertByDate_Append(sorted, e) == Append(sorted, e)

\* Array.from(dailyMap.entries()).sort((a, b) => a[0].localeCompare(b[0]))
InsertByDate(sorted, e) ==
    LET k == Cardinality({i \in 1..Len(sorted) : sorted[i][1] <= e[1]})
    IN  SubSeq(sorted, 1, k) \o <<e>> \o SubSeq(sorted, k + 1, Len(sorted))
RECURSIVE SortByDate(_)
SortByDate(s) ==
    IF Len(s) = 0 THEN << >>
    ELSE InsertByDate(SortByDate(SubSeq(s, 1, Len(s) - 1)), s[Len(s)])

IsSlotted(profit) == profit # 0

IsPositive(profit) == profit > 0

IsNegative(profit) == profit < 0

PosSlotIndex_ByRank(count, i) == i

\* slotIndex = positives.length - 1 - i
PosSlotIndex(count, i) == count - 1 - i

\* negatives.forEach((c, i) => result[`neg_${i}`] ...)
NegSlotIndex(count, i) == i

\* positives.forEach / negatives.forEach: the writes of the slot keys into
\* the day's result object; list index i is 0-based as in the code
RECURSIVE SlotLoop(_, _, _, _)
SlotLoop(list, i, side, slots) ==
    IF i >= Len(list) THEN slots
    ELSE LET c == list[i + 1]
             slotIndex == IF side = "pos" THEN PosSlotIndex(Len(list), i)
                          ELSE NegSlotIndex(Len(list), i)
         IN  SlotLoop(list, i + 1, side,
                 MapSet(slots, <<side, slotIndex>>,
                        [value |-> c.profit, name |-> c.name, color |-> c.color,
                         slotIndex |-> slotIndex, side |-> side]))

RECURSIVE SumProfit(_)
SumProfit(s) == IF Len(s) = 0 THEN 0 ELSE Head(s).profit + SumProfit(Tail(s))

\* .map(([date, dayData]) => ...): one day of the chart
ProcessDay(date, dayData, colorMap) ==
    LET entries == [i \in 1..Len(dayData) |->
                       [name |-> dayData[i][1], profit |-> dayData[i][2],
                        color |-> colorMap[dayData[i][1]]]]
        dayCreatives == SelectSeq(entries, LAMBDA c : IsSlotted(c.profit))
        positives == SortByProfitDesc(SelectSeq(dayCreatives, LAMBDA c : IsPositive(c.profit)))
        negatives == SortByProfitDesc(SelectSeq(dayCreatives, LAMBDA c : IsNegative(c.profit)))
    IN  [date |-> date,
         slots |-> SlotLoop(negatives, 0, "neg", SlotLoop(positives, 0, "pos", << >>)),
         total |-> SumProfit(dayCreatives),
         posCount |-> Len(positives),
         negCount |-> Len(negatives)]

RECURSIVE MaxCount(_, _)
MaxCount(processed, side) ==
    IF Len(processed) = 0 THEN 0
    ELSE Max(MaxCount(SubSeq(processed, 1, Len(processed) - 1), side),
             IF side = "pos" THEN processed[Len(processed)].posCount
             ELSE processed[Len(processed)].negCount)

SlotCap_None(count) == count

\* Math.min(..., MAX_SLOTS)
SlotCap(count) == Min(count, MAX_SLOTS)

\* the value of the useMemo, with the totals the ranking used
DailyAggregation(records) ==
    LET dailyMap == DailyMapLoop(records, 1, << >>)
        creativeSet == CreativeSetLoop(records, 1, << >>)
        sortedCreatives == SortedCreatives(creativeSet, dailyMap)
        colorMap == ColorMap(sortedCreatives)
        byDate == SortByDate(dailyMap)
        processed == [i \in 1..Len(byDate) |-> ProcessDay(byDate[i][1], byDate[i][2], colorMap)]
    IN  [chartData |-> processed,
         creativeCount |-> Len(creativeSet),
         sortedCreatives |-> sortedCreatives,
         maxPosSlots |-> SlotCap(MaxCount(processed, "pos")),
         maxNegSlots |-> SlotCap(MaxCount(processed, "neg"))]

\* posSlots / negSlots: the lanes MemoizedChart renders a Bar for
RenderedLanes(agg, side) ==
    0..((IF side = "pos" THEN agg.maxPosSlots ELSE agg.maxNegSlots) - 1)

\* tooltipItems, the loop: for (let i = 0; i < MAX_SLOTS; i++) push
\* pos_i_data, then neg_i_data, when present with a value other than 0
RECURSIVE ItemsLoop(_, _, _)
ItemsLoop(dayData, i, items) ==
    IF i >= MAX_SLOTS THEN items
    ELSE LET withPos == IF /\ MapHas(dayData.slots, <<"pos", i>>)
                           /\ MapGet(dayData.slots, <<"pos", i>>).value # 0
                        THEN Append(items, MapGet(dayData.slots, <<"pos", i>>))
                        ELSE items
             withNeg == IF /\ MapHas(dayData.slots, <<"neg", i>>)
                           /\ MapGet(dayData.slots, <<"neg", i>>).value # 0
                        THEN Append(withPos, MapGet(dayData.slots, <<"neg", i>>))
                        ELSE withPos
         IN  ItemsLoop(dayData, i + 1, withNeg)

\* the comparator of items.sort: value descending, then rank ascending
ItemRank(a) == IF a.side = "pos" THEN -a.slotIndex ELSE a.slotIndex
ItemCompare(a, b) ==
    IF a.value # b.value THEN b.value - a.value ELSE ItemRank(a) - ItemRank(b)

InsertItem(sorted, e) ==
    LET k == Cardinality({i \in 1..Len(sorted) : ItemCompare(sorted[i], e) <= 0})
    IN  SubSeq(sorted, 1, k) \o <<e>> \o SubSeq(sorted, k + 1, Len(sorted))
RECURSIVE SortItems(_)
SortItems(s) ==
    IF Len(s) = 0 THEN << >>
    ELSE InsertItem(SortItems(SubSeq(s, 1, Len(s) - 1)), s[Len(s)])

\* tooltipItems
TooltipItems(dayData) == SortItems(ItemsLoop(dayData, 0, << >>))

\* tooltipTotal: tooltipItems.reduce((sum, item) => sum + item.value, 0)
RECURSIVE TooltipTotal(_)
TooltipTotal(items) ==
    IF Len(items) = 0 THEN 0 ELSE Head(items).value + TooltipTotal(Tail(items))

\* a hit on column clampedIndex: setTooltipData({ dayData, label }), and the
\* render that computes tooltipItems and tooltipTotal from it
ShowDay(clampedIndex) ==
    /\ chart = "stacked"
    /\ Len(computed) = 1
    /\ clampedIndex \in 0..(Len(computed[1].chartData) - 1)
    /\ LET dayData == computed[1].chartData[clampedIndex + 1]
           items == TooltipItems(dayData)
       IN  computed' = <<computed[1],
                         [index |-> clampedIndex, dayData |-> dayData,
                          tooltipItems |-> items, tooltipTotal |-> TooltipTotal(items)]>>
    /\ UNCHANGED <<ctlVars, probe, data>>

\* the data prop is aggregated (first render, or the prop changed)
Aggregate ==
    /\ chart = "stacked"
    /\ Len(computed) = 0
    /\ computed' = <<DailyAggregation(data)>>
    /\ UNCHANGED <<ctlVars, probe, data>>

(***************************************************************************)
(* SlotSpec: one aggregation of the stacked chart, over bounded record     *)
(* lists                                                                   *)
(***************************************************************************)
MaxRecords == 3      \* length of the freely chosen record lists
MaxDated == 2        \* length of the record lists with empty and '/' dates

SlotRecords == [date : {1, 2}, creativeName : {0, 1, 2}, profit : {-1, 1, 2}]
DatedRecords == [date : {0, 1, -1}, creativeName : {1, 2}, profit : {0, 1, -1}]

SeqsUpTo(S, n) == UNION {[1..k -> S] : k \in 0..n}

\* one day with n creatives, all gaining or all losing, distinct or equal
\* amounts, and a second day with one of them
WideCounts == {MAX_SLOTS - 1, MAX_SLOTS, MAX_SLOTS + 1, MAX_SLOTS + 2}
WideLists ==
    { [i \in 1..(n + 1) |->
          IF i <= n
          THEN [date |-> 1, creativeName |-> i, profit |-> sign * (IF equal THEN 1 ELSE i)]
          ELSE [date |-> 2, creativeName |-> 1, profit |-> 3]] :
        n \in WideCounts, sign \in {-1, 1}, equal \in BOOLEAN }

\* records of one creative on three consecutive days, in any order
GapRecords == [date : {1, 2, 3}, creativeName : {1}, profit : {1}]

SlotInputs ==
    SeqsUpTo(SlotRecords, MaxRecords) \cup SeqsUpTo(DatedRecords, MaxDated) \cup WideLists
        \cup SeqsUpTo(GapRecords, MaxRecords)

SlotInit ==
    /\ chart = "stacked"
    /\ containerSize = [width |-> 0, height |-> 0]
    /\ chartPointsRef = << >>
    /\ chartDataLen = 0
    /\ probe = NoPos
    /\ data \in SlotInputs
    /\ computed = << >>
    /\ Mounted
    /\ Settled

SlotNext == Aggregate \/ \E clampedIndex \in 0..(MaxRecords - 1) : ShowDay(clampedIndex)

SlotSpec == SlotInit /\ [][SlotNext]_vars

(***************************************************************************)
(* Tab2Report: aggregation by creative (Tab2Report.tsx, aggregatedByCreative *)
(* at lines 321-365).                                                      *)
(* A record is [creativeName, impressions, cv, cost, revenue, profit] with *)
(* whole-number fields; impressions, cv, cost and revenue are counts and   *)
(* amounts, never negative.  A quotient a / b is kept as [num, den].       *)
(***************************************************************************)
\* c.impressions || 0: a number is kept, 0 stays 0
OrZero(v) == IF v = 0 THEN 0 ELSE v

\* grouped.set(name, {...}): the bucket opened by the first record of a name
FirstOf(name, c) ==
    [creativeName |-> name, adCount |-> 1,
     impressions |-> OrZero(c.impressions), cv |-> OrZero(c.cv), cost |-> OrZero(c.cost),
     revenue |-> OrZero(c.revenue), profit |-> OrZero(c.profit)]

Merged_KeepFirst(existing, c) == existing

\* existing.adCount += 1; existing.impressions += c.impressions || 0; ...
Merged(existing, c) ==
    [creativeName |-> existing.creativeName, adCount |-> existing.adCount + 1,
     impressions |-> existing.impressions + OrZero(c.impressions),
     cv |-> existing.cv + OrZero(c.cv), cost |-> existing.cost + OrZero(c.cost),
     revenue |-> existing.revenue + OrZero(c.revenue),
     profit |-> existing.profit + OrZero(c.profit)]

\* filteredCreatives.forEach: grouped, a Map from name to bucket
RECURSIVE GroupLoop(_, _, _)
GroupLoop(records, i, grouped) ==
    IF i > Len(records) THEN grouped
    ELSE LET c == records[i]
             name == NameOrUnclassified(c.creativeName)
         IN  GroupLoop(records, i + 1,
                 IF MapHas(grouped, name)
                 THEN MapSet(grouped, name, Merged(MapGet(grouped, name), c))
                 ELSE MapSet(grouped, name, FirstOf(name, c)))

Zero == [num |-> 0, den |-> 1]
Quotient(a, b) == [num |-> a, den |-> b]

Divisible_Always(v) == TRUE

\* g.impressions > 0 ? ... : 0, and the same guard on g.cv and g.cost
Divisible(v) == v > 0

\* .map(g => ({...g, cpm, cpa, roas}))
WithRates(g) ==
    [creativeName |-> g.creativeName, adCount |-> g.adCount,
     impressions |-> g.impressions, cv |-> g.cv, cost |-> g.cost,
     revenue |-> g.revenue, profit |-> g.profit,
     cpm |-> IF Divisible(g.impressions) THEN Quotient(g.cost * 1000, g.impressions) ELSE Zero,
     cpa |-> IF Divisible(g.cv) THEN Quotient(g.cost, g.cv) ELSE Zero,
     roas |-> IF Divisible(g.cost) THEN Quotient(g.revenue * 100, g.cost) ELSE Zero]

\* aggregatedByCreative
AggregatedByCreative(records) ==
    LET grouped == GroupLoop(records, 1, << >>)
    IN  SortByProfitDesc([i \in 1..Len(grouped) |-> WithRates(grouped[i][2])])

\* filteredCreatives changes and the memo is recomputed
AggregateByCreative ==
    /\ chart = "report"
    /\ Len(computed) = 0
    /\ computed' = <<AggregatedByCreative(data)>>
    /\ UNCHANGED <<ctlVars, probe, data>>

(***************************************************************************)
(* AggSpec: one aggregation by creative, over bounded record lists         *)
(***************************************************************************)
MaxAds == 3          \* length of the record lists

\* an ad that sells, an ad with no delivery, an ad that spends without
\* converting, and conversions without spend
AdMetrics ==
    { [impressions |-> 1000, cv |-> 2, cost |-> 100, revenue |-> 150, profit |-> 50],
      [impressions |-> 0, cv |-> 0, cost |-> 0, revenue |-> 0, profit |-> 0],
      [impressions |-> 500, cv |-> 0, cost |-> 50, revenue |-> 0, profit |-> -50],
      [impressions |-> 0, cv |-> 1, cost |-> 0, revenue |-> 30, profit |-> 30] }

AdRecords ==
    { [creativeName |-> n, impressions |-> m.impressions, cv |-> m.cv, cost |-> m.cost,
       revenue |-> m.revenue, profit |-> m.profit] : n \in {0, 1, 2}, m \in AdMetrics }

AggInit ==
    /\ chart = "report"
    /\ containerSize = [width |-> 0, height |-> 0]
    /\ chartPointsRef = << >>
    /\ chartDataLen = 0
    /\ probe = NoPos
    /\ data \in SeqsUpTo(AdRecords, MaxAds)
    /\ computed = << >>
    /\ Mounted
    /\ Settled

AggNext == AggregateByCreative

AggSpec == AggInit /\ [][AggNext]_vars

(***************************************************************************)
(* Tab2Report: the date filter in front of both aggregations               *)
(* (Tab2Report.tsx, parseCreativeDate at lines 287-295, filteredCreatives  *)
(* at 298-311; the filtered list is the data prop of DailyProfitChart,     *)
(* line 525, and the input of aggregatedByCreative).                       *)
(* A date is a whole number: 0 is the empty string, d in 1..89 is the day  *)
(* d written 'YYYY-MM-DD', -d is the same day written with '/', and        *)
(* Garbled is a non-empty string that is no date.  parseISO and            *)
(* isWithinInterval belong to date-fns: parseISO is documented to return   *)
(* an Invalid Date for such a string, which is in no interval; the model   *)
(* also follows the outcome the try / catch provides for, a throw.         *)
(***************************************************************************)
Garbled == 90

IsISODate(normalized) == normalized >= 1 /\ normalized < Garbled

NullDate == [kind |-> "null", day |-> 0]
InvalidDate == [kind |-> "invalid", day |-> 0]

\* parseCreativeDate
ParseCreativeDate(dateStr, parseThrows) ==
    IF dateStr = NoDate THEN NullDate
    ELSE LET normalized == NormalizeDate(dateStr)
         IN  IF IsISODate(normalized) THEN [kind |-> "date", day |-> normalized]
             ELSE IF parseThrows THEN NullDate
             ELSE InvalidDate

\* isWithinInterval(creativeDate, { start, end }): comparisons with the time
\* of an Invalid Date (NaN) are false
IsWithinInterval(date, range) ==
    date.kind = "date" /\ date.day >= range.from /\ date.day <= range.to

\* the date filter of filteredCreatives (no account and no person selected)
KeptByDate(c, range, parseThrows) ==
    LET creativeDate == ParseCreativeDate(c.date, parseThrows)
    IN  IF creativeDate = NullDate THEN TRUE
        ELSE IsWithinInterval(creativeDate, range)

FilteredCreatives(creatives, range, parseThrows) ==
    SelectSeq(creatives, LAMBDA c : KeptByDate(c, range, parseThrows))

\* a render of Tab2Report: filteredCreatives, then aggregatedByCreative and
\* the aggregation of DailyProfitChart over it
RenderReport(parseThrows) ==
    /\ chart = "tab2"
    /\ Len(computed) = 0
    /\ LET filtered == FilteredCreatives(data.creatives, data.range, parseThrows)
       IN  computed' = <<[filteredCreatives |-> filtered,
                          aggregatedByCreative |-> AggregatedByCreative(filtered),
                          daily |-> DailyAggregation(filtered),
                          parseThrows |-> parseThrows]>>
    /\ UNCHANGED <<ctlVars, probe, data>>

(***************************************************************************)
(* DateSpec: one render of Tab2Report, over bounded lists of creatives     *)
(***************************************************************************)
MaxRows == 2         \* length of the lists of creatives

DateMetrics ==
    { [impressions |-> 1000, cv |-> 2, cost |-> 100, revenue |-> 150, profit |-> 50],
      [impressions |-> 500, cv |-> 0, cost |-> 50, revenue |-> 0, profit |-> -50] }

\* dates: empty, day 1, day 2 written with '/', day 3, no date at all
DateRecords ==
    { [date |-> d, creativeName |-> n, impressions |-> m.impressions, cv |-> m.cv,
       cost |-> m.cost, revenue |-> m.revenue, profit |-> m.profit] :
        d \in {NoDate, 1, -2, 3, Garbled}, n \in {1, 2}, m \in DateMetrics }

\* the active date range: days 1 to 2
DateRanges == { [from |-> 1, to |-> 2] }

DateInit ==
    /\ chart = "tab2"
    /\ containerSize = [width |-> 0, height |-> 0]
    /\ chartPointsRef = << >>
    /\ chartDataLen = 0
    /\ probe = NoPos
    /\ data \in [creatives : SeqsUpTo(DateRecords, MaxRows), range : DateRanges]
    /\ computed = << >>
    /\ Mounted
    /\ Settled

DateNext == \E parseThrows \in BOOLEAN : RenderReport(parseThrows)

DateSpec == DateInit /\ [][DateNext]_vars

(***************************************************************************)
(* MatrixChart: the bubble points (MatrixChart.tsx, chartData useMemo at   *)
(* lines 388-499, calculateRelativePosition and calculateBubbleSize at     *)
(* lines 116-129).                                                         *)
(* A creative is [name, cv, cost, profit, roas] with whole-number fields;  *)
(* cv, cost and roas are never negative.  The coordinates are fractions    *)
(* [num, den] with den > 0, so that the mapping is followed exactly.       *)
(***************************************************************************)
Frac(n, d) == IF d < 0 THEN [num |-> -n, den |-> -d] ELSE [num |-> n, den |-> d]
Whole(n) == [num |-> n, den |-> 1]
FracLess(a, b) == a.num * b.den < b.num * a.den
FracEq(a, b) == a.num * b.den = b.num * a.den
FracLeq(a, b) == a.num * b.den <= b.num * a.den
FracMax(a, b) == IF FracLess(a, b) THEN b ELSE a
FracMin(a, b) == IF FracLess(b, a) THEN b ELSE a

Clamp_None(lo, hi, v) == v

\* Math.max(lo, Math.min(hi, v))
Clamp(lo, hi, v) == FracMax(lo, FracMin(hi, v))

\* calculateRelativePosition(value, avg, false)
CalculateRelativePosition(value, avg) ==
    IF avg.num = 0 THEN Whole(0)
    ELSE LET ratio == Frac(value * avg.den, avg.num)
             position == Frac(50 * (ratio.num - ratio.den), ratio.den)
         IN  Clamp(Whole(-100), Whole(100), position)

\* calculateBubbleSize(roas, avgROAS)
CalculateBubbleSize(roas, avgROAS) ==
    IF avgROAS.num = 0 THEN Whole(1)
    ELSE Clamp(Frac(1, 2), Whole(2), Frac(roas * avgROAS.den, avgROAS.num))

RECURSIVE SumField(_, _)
SumField(s, field) == IF Len(s) = 0 THEN 0 ELSE Head(s)[field] + SumField(Tail(s), field)

\* list.length > 0 ? list.reduce(...) / list.length : 0
Average(list, field) ==
    IF Len(list) > 0 THEN Frac(SumField(list, field), Len(list)) ELSE Whole(0)

\* list.length > 0 ? Math.max(...list.map(c => c.profit)) : 0, and Math.min
MaxProfitOf(list) ==
    IF Len(list) = 0 THEN 0
    ELSE CHOOSE p \in {list[i].profit : i \in 1..Len(list)} :
             \A i \in 1..Len(list) : list[i].profit <= p
MinProfitOf(list) ==
    IF Len(list) = 0 THEN 0
    ELSE CHOOSE p \in {list[i].profit : i \in 1..Len(list)} :
             \A i \in 1..Len(list) : list[i].profit >= p

IsProfitable(profit) == profit >= 0

ProfitY_FullRange(profit, lo, hi) ==
    IF hi - lo = 0 THEN Whole(50) ELSE Frac(100 * (profit - lo), hi - lo)

\* yPosition of a creative with profit >= 0: 5 + ratio * 90, or 50
ProfitY(profit, lo, hi) ==
    IF hi - lo = 0 THEN Whole(50)
    ELSE Frac(5 * (hi - lo) + 90 * (profit - lo), hi - lo)

\* yPosition of a creative with profit < 0: -95 + ratio * 90, or -50
LossY(profit, lo, hi) ==
    IF hi - lo = 0 THEN Whole(-50)
    ELSE Frac(-95 * (hi - lo) + 90 * (profit - lo), hi - lo)

StalledY_NoMidpoint(profit, lo, hi) ==
    IF hi - lo = 0 THEN Whole(-100)
    ELSE Frac(-100 * (hi - lo) + 50 * (profit - lo), hi - lo)

\* yPosition of a creative with cv = 0: -100 + profitRatio * 50, or -75
StalledY(profit, lo, hi) ==
    IF hi - lo = 0 THEN Whole(-75)
    ELSE Frac(-100 * (hi - lo) + 50 * (profit - lo), hi - lo)

StalledX == Whole(-95)
StalledZ == Frac(4, 5)

\* data.filter(c => c.cv > 0 && c.cost > 0)
CvPositiveData(creatives) == SelectSeq(creatives, LAMBDA c : c.cv > 0 /\ c.cost > 0)
\* data.filter(c => c.cv === 0 && c.cost > 0 && c.profit < 0)
CvZeroData(creatives) == SelectSeq(creatives, LAMBDA c : c.cv = 0 /\ c.cost > 0 /\ c.profit < 0)

GetQuadrant_Strict(cv, profit, avgCV) ==
    LET hasHighCV == FracLess(avgCV, Whole(cv))
        isProfit == profit >= 0
    IN  IF hasHighCV /\ isProfit THEN 1
        ELSE IF hasHighCV /\ ~isProfit THEN 2
        ELSE IF ~hasHighCV /\ isProfit THEN 3
        ELSE 4

\* getQuadrant: hasHighCV = cv >= avgCV, isProfit = profit >= 0
GetQuadrant(cv, profit, avgCV) ==
    LET hasHighCV == FracLeq(avgCV, Whole(cv))
        isProfit == profit >= 0
    IN  IF hasHighCV /\ isProfit THEN 1
        ELSE IF hasHighCV /\ ~isProfit THEN 2
        ELSE IF ~hasHighCV /\ isProfit THEN 3
        ELSE 4

\* quadrant: 4 as Quadrant, of a point without conversions
StalledQuadrant == 4

\* counts: points.filter(p => p.quadrant === q).length for q = 1..4
QuadrantCounts(points) ==
    [q \in 1..4 |-> Cardinality({i \in 1..Len(points) : points[i].quadrant = q})]

\* the value of the chartData useMemo: the points, the two means and the
\* quadrant counts
ChartData(creatives) ==
    LET cvPositiveData == CvPositiveData(creatives)
        cvZeroData == CvZeroData(creatives)
        avgCV == Average(cvPositiveData, "cv")
        avgROAS == Average(cvPositiveData, "roas")
        profitableData == SelectSeq(cvPositiveData, LAMBDA c : IsProfitable(c.profit))
        lossData == SelectSeq(cvPositiveData, LAMBDA c : ~IsProfitable(c.profit))
        maxProfit == MaxProfitOf(profitableData)
        minProfitInProfitable == MinProfitOf(profitableData)
        maxLoss == MaxProfitOf(lossData)
        minLoss == MinProfitOf(lossData)
        cvPositivePoints ==
            [i \in 1..Len(cvPositiveData) |->
                LET creative == cvPositiveData[i]
                IN  [name |-> creative.name, cv |-> creative.cv, profit |-> creative.profit,
                     x |-> CalculateRelativePosition(creative.cv, avgCV),
                     y |-> IF IsProfitable(creative.profit)
                           THEN ProfitY(creative.profit, minProfitInProfitable, maxProfit)
                           ELSE LossY(creative.profit, minLoss, maxLoss),
                     z |-> CalculateBubbleSize(creative.roas, avgROAS),
                     quadrant |-> GetQuadrant(creative.cv, creative.profit, avgCV)]]
        cvZeroPoints ==
            [i \in 1..Len(cvZeroData) |->
                LET creative == cvZeroData[i]
                IN  [name |-> creative.name, cv |-> creative.cv, profit |-> creative.profit,
                     x |-> StalledX,
                     y |-> StalledY(creative.profit, MinProfitOf(cvZeroData), MaxProfitOf(cvZeroData)),
                     z |-> StalledZ,
                     quadrant |-> StalledQuadrant]]
        points == cvPositivePoints \o cvZeroPoints
    IN  [points |-> points, avgCV |-> avgCV, avgROAS |-> avgROAS,
         counts |-> QuadrantCounts(points)]

\* the data prop of the matrix chart is mapped to bubble points
ComputeChartData ==
    /\ chart = "matrix"
    /\ Len(computed) = 0
    /\ computed' = <<ChartData(data)>>
    /\ UNCHANGED <<ctlVars, probe, data>>

(***************************************************************************)
(* MatrixSpec: one computation of the bubble points, over bounded lists of *)
(* creatives                                                               *)
(***************************************************************************)
MaxCreatives == 3    \* length of the freely chosen lists of creatives

\* gaining, break-even and losing creatives with conversions, conversions
\* without spend, stalled losers with and without spend, and a creative
\* without conversions that loses nothing
CreativeShapes ==
    { [cv |-> 2, cost |-> 100, profit |-> 300, roas |-> 400],
      [cv |-> 1, cost |-> 100, profit |-> 100, roas |-> 200],
      [cv |-> 1, cost |-> 100, profit |-> 0, roas |-> 100],
      [cv |-> 4, cost |-> 100, profit |-> -100, roas |-> 50],
      [cv |-> 1, cost |-> 100, profit |-> -300, roas |-> 0],
      [cv |-> 1, cost |-> 0, profit |-> 500, roas |-> 0],
      [cv |-> 0, cost |-> 100, profit |-> -200, roas |-> 0],
      [cv |-> 0, cost |-> 50, profit |-> -50, roas |-> 0],
      [cv |-> 0, cost |-> 0, profit |-> -100, roas |-> 0],
      [cv |-> 0, cost |-> 100, profit |-> 0, roas |-> 100] }

Named(shapes) ==
    [i \in 1..Len(shapes) |->
        [name |-> i, cv |-> shapes[i].cv, cost |-> shapes[i].cost,
         profit |-> shapes[i].profit, roas |-> shapes[i].roas]]

\* n - 1 ordinary creatives and one with 1000 times their conversions and
\* 100 times their ROAS
OutlierLists ==
    { [i \in 1..n |->
          IF i < n THEN [name |-> i, cv |-> 1, cost |-> 100, profit |-> 100, roas |-> 10]
          ELSE [name |-> i, cv |-> 1000, cost |-> 100, profit |-> 300, roas |-> 1000]] :
        n \in {4, 5} }

MatrixInputs ==
    {Named(shapes) : shapes \in SeqsUpTo(CreativeShapes, MaxCreatives)} \cup OutlierLists

MatrixInit ==
    /\ chart = "matrix"
    /\ containerSize = [width |-> 0, height |-> 0]
    /\ chartPointsRef = << >>
    /\ chartDataLen = 0
    /\ probe = NoPos
    /\ data \in MatrixInputs
    /\ computed = << >>
    /\ Mounted
    /\ Settled

MatrixNext == ComputeChartData

MatrixSpec == MatrixInit /\ [][MatrixNext]_vars

(***************************************************************************)
(* Properties of the tooltip controller (checked under Spec)               *)
(***************************************************************************)
\* the width of the tooltip panel, px: w-72 (matrix), minWidth 260px (stacked)
MatrixPanelWidth == 288
StackedPanelMinWidth == 260
PanelWidth == IF chart = "matrix" THEN MatrixPanelWidth * SubPx ELSE StackedPanelMinWidth
\* the width of the container in the units of tooltipPos
ContainerWidth == IF chart = "matrix" THEN containerSize.width * SubPx ELSE containerSize.width

ThrottleMs == IF chart = "matrix" THEN MatrixThrottleMs ELSE StackedThrottleMs
OffsetOf == IF chart = "matrix" THEN TooltipOffset * SubPx ELSE TooltipOffset

\* the callback of a hide timer ran in this step
TimerRan == lastEvent' \in {"timerHide", "timerIdle", "timerNoop"}

\* the element a pointer position lies on, as the charts draw them: the
\* bubble whose centre is nearest among those within their own hit radius
\* (the first of them in array order), or the day column containing x
KeyUnder(mouse) ==
    IF chart = "matrix"
    THEN LET near == {i \in 1..Len(chartPointsRef) :
                         DistSq(mouse, chartPointsRef[i], containerSize)
                             < GetHitRadius(chartPointsRef[i].z) * GetHitRadius(chartPointsRef[i].z)}
             best == {i \in near : \A j \in near :
                         \/ DistSq(mouse, chartPointsRef[i], containerSize)
                                < DistSq(mouse, chartPointsRef[j], containerSize)
                         \/ /\ DistSq(mouse, chartPointsRef[i], containerSize)
                                  = DistSq(mouse, chartPointsRef[j], containerSize)
                            /\ i <= j}
         IN  IF best = {} THEN NoKey ELSE chartPointsRef[CHOOSE i \in best : TRUE].name
    ELSE LET w == StackedChartWidth(containerSize.width)
             cols == {k \in 0..(chartDataLen - 1) :
                         /\ k * w <= (mouse[1] - StackedChartLeft) * chartDataLen
                         /\ \/ (mouse[1] - StackedChartLeft) * chartDataLen < (k + 1) * w
                            \/ k = chartDataLen - 1 /\ mouse[1] <= StackedChartRight(containerSize.width)}
         IN  IF w <= 0 \/ cols = {} THEN NoKey ELSE CHOOSE k \in cols : TRUE

\* C1 (as claimed): tooltip debounce.  While the tooltip is showing, a run of
\* processed misses shorter than the grace period never hides the tooltip,
\* and a run of misses longer than the grace period has hidden it.
C1_LongRunHidden == tooltipVisible /\ missStart # NoTime => now - missStart <= GraceMs
C1_ShortRunKeeps ==
    tooltipVisible /\ ~tooltipVisible' /\ missStart # NoTime => now - missStart >= GraceMs
C1_Debounce == [](C1_LongRunHidden) /\ [][C1_ShortRunKeeps]_vars

\* C2: pinning.  The pointer entering the tooltip panel cancels the pending
\* hide and pins the tooltip; while it stays pinned the tooltip is displayed
\* and no step (timer, chart pointer move, chart mouse-leave) changes its
\* display, content or position.
C2_EnterPins ==
    pointer # "tooltip" /\ pointer' = "tooltip" => isTooltipPinned' /\ pendingTimers' = {}
C2_PinnedFrozen ==
    isTooltipPinned /\ isTooltipPinned' =>
        UNCHANGED <<tooltipVisible, tooltipData, tooltipPos>>
C2_Pinning ==
    /\ [](isTooltipPinned => tooltipVisible /\ pointer = "tooltip")
    /\ [][C2_EnterPins]_vars
    /\ [][C2_PinnedFrozen]_vars
C2_Witness == isTooltipPinned /\ lastEvent = "pinned" /\ tooltipVisible /\ now > lastThrottleTime

\* C3: leaving the chart.  Once the pointer has left the chart, as long as it
\* stays outside and the tooltip is still displayed, the hide scheduled at
\* the moment of leaving is pending and the grace period has not elapsed;
\* so the tooltip is hidden once the grace period has elapsed.
C3_LeaveHides ==
    pointer = "out" /\ tooltipVisible =>
        /\ hideTimeoutRef = leftAt + GraceMs
        /\ hideTimeoutRef \in pendingTimers
        /\ now <= leftAt + GraceMs
C3_Witness ==
    /\ pointer = "out"
    /\ lastEvent = "timerHide"
    /\ ~tooltipVisible
    /\ now = leftAt + GraceMs

\* C4: a processed pointer move that hits a point, while not pinned, leaves
\* the tooltip displayed with the content of exactly the point under the
\* pointer (so a later hit on another point replaces the content).
C4_HitShows ==
    lastEvent = "hit" =>
        /\ ~isTooltipPinned
        /\ tooltipVisible
        /\ KeyUnder(hitMouse) # NoKey
        /\ tooltipData.key = KeyUnder(hitMouse)
C4_Witness ==
    /\ lastEvent = "hit"
    /\ tooltipData.key = 2
    /\ now > Epoch
    /\ pendingTimers = {}

\* C5: unpinning.  The pointer leaving the tooltip panel unpins the tooltip
\* and restarts the grace timer from zero; unless a hit, a re-entry or a new
\* scheduling comes first, that timer stays pending until it is due and the
\* tooltip is hidden when it fires; a processed hit cancels it and leaves the
\* tooltip displayed.
C5_LeaveRestarts ==
    pointer = "tooltip" /\ pointer' # "tooltip" =>
        /\ ~isTooltipPinned'
        /\ hideTimeoutRef' = now + GraceMs
        /\ pendingTimers' = {now + GraceMs}
C5_FiringHides == TimerRan /\ ~isTooltipPinned => ~tooltipVisible'
C5_Pending ==
    hideCause = "unpin" /\ tooltipVisible =>
        /\ ~isTooltipPinned
        /\ hideTimeoutRef \in pendingTimers
        /\ now <= hideTimeoutRef
C5_HitKeeps == lastEvent = "hit" => tooltipVisible /\ pendingTimers = {}
C5_Unpinning ==
    /\ [](C5_Pending /\ C5_HitKeeps)
    /\ [][C5_LeaveRestarts]_vars
    /\ [][C5_FiringHides]_vars
C5_Witness ==
    /\ lastEvent = "timerHide"
    /\ hideCause = "unpin"
    /\ pointer = "chart"
    /\ ~tooltipVisible

\* C6: on a processed hit the position is set from the pointer every time,
\* while the content is replaced only when the matched identity differs from
\* the previously matched one (a hit on the same identity leaves the content
\* as it is).
C6_HitStep ==
    lastEvent' = "hit" =>
        LET key == KeyUnder(hitMouse')
        IN  /\ tooltipPos' = <<hitMouse'[1] + OffsetOf, hitMouse'[2] + OffsetOf>>
            /\ IF lastHovered # key
               THEN tooltipData' = [key |-> key, ver |-> dataVersion]
               ELSE tooltipData' = tooltipData
C6_ContentPosition == [][C6_HitStep]_vars
C6_Witness ==
    /\ lastEvent = "hit"
    /\ tooltipData.ver < dataVersion
    /\ tooltipData.key = KeyUnder(hitMouse)

\* C7: throttle.  Two executions of the hit-test are at least the chart's
\* minimum interval apart, and a pointer move dropped by the throttle
\* changes no tooltip state and schedules no timer.
C7_Spaced ==
    lastEvent' \in {"hit", "miss"} /\ lastHitTest # NoTime =>
        now - lastHitTest >= ThrottleMs
C7_DroppedInert ==
    lastEvent' = "throttled" =>
        /\ now - lastHitTest < ThrottleMs \/ now - lastThrottleTime < ThrottleMs
        /\ UNCHANGED <<tooltipVisible, tooltipData, tooltipPos, lastHovered,
                       hideTimeoutRef, pendingTimers, lastThrottleTime, isTooltipPinned>>
C7_Throttle == [][C7_Spaced]_vars /\ [][C7_DroppedInert]_vars
C7_Witness ==
    /\ lastEvent = "throttled"
    /\ tooltipVisible
    /\ now > lastHitTest
    /\ now - lastHitTest < ThrottleMs

(***************************************************************************)
(* Properties of the hit-tests (checked under HitSpec and IdxSpec)         *)
(***************************************************************************)
\* the bubble the move reported, 0 if none
Reported ==
    IF lastEvent = "hit"
    THEN CHOOSE i \in 1..Len(chartPointsRef) : chartPointsRef[i].name = tooltipData.key
    ELSE 0

ProbeDistSq(i) == DistSq(probe, chartPointsRef[i], containerSize)
WithinOwnRadius(i) ==
    ProbeDistSq(i) < GetHitRadius(chartPointsRef[i].z) * GetHitRadius(chartPointsRef[i].z)
AtCentre(i) ==
    /\ probe[1] = PointPixelX(chartPointsRef[i], containerSize)
    /\ probe[2] = PointPixelY(chartPointsRef[i], containerSize)

\* C8: matrix hit-test soundness.  With a valid container size, a pointer at
\* the exact pixel centre of a bubble yields a hit; and the reported bubble
\* is always closer to the pointer than its own hit radius, even when a
\* bubble outside its radius is nearer.
C8_HitSound ==
    /\ /\ lastEvent # "init"
       /\ MatrixGeometryValid(containerSize)
       /\ \E i \in 1..Len(chartPointsRef) : AtCentre(i)
       => lastEvent = "hit" /\ tooltipVisible
    /\ lastEvent = "hit" =>
          \A i \in 1..Len(chartPointsRef) :
              chartPointsRef[i].name = tooltipData.key => WithinOwnRadius(i)
C8_Witness ==
    /\ lastEvent = "hit"
    /\ \E j \in 1..Len(chartPointsRef) :
          /\ ProbeDistSq(j) < ProbeDistSq(Reported)
          /\ ~WithinOwnRadius(j)

\* C9: matrix hit-test result.  The reported bubble is the one with the
\* smallest squared distance among those within their own hit radius, the
\* first of them in array order on equal distance; when none is within its
\* radius the move is a miss and a hide is scheduled.
C9_Result ==
    lastEvent \in {"hit", "miss"} =>
        IF KeyUnder(probe) # NoKey
        THEN /\ lastEvent = "hit"
             /\ tooltipData.key = KeyUnder(probe)
        ELSE /\ lastEvent = "miss"
             /\ hideTimeoutRef = now + GraceMs
             /\ pendingTimers = {now + GraceMs}
C9_Witness ==
    /\ lastEvent = "hit"
    /\ \E j \in 1..Len(chartPointsRef) :
          /\ j > Reported
          /\ ProbeDistSq(j) = ProbeDistSq(Reported)
          /\ WithinOwnRadius(j)

\* C10 (as claimed): stacked hit-test exactness.  For a pointer x inside
\* [plotLeft, plotRight] the matched day is floor((x - plotLeft) / plotWidth
\* * numDays) clamped to [0, numDays - 1], so a pointer exactly on the
\* boundary of columns k-1 and k matches k; outside, the move is a miss and
\* selects no day.
C10_Exact ==
    lastEvent # "init" /\ chartDataLen >= 1 =>
        LET x == probe[1]
            plotLeft == StackedChartLeft
            plotRight == StackedChartRight(containerSize.width)
            plotWidth == plotRight - plotLeft
        IN  IF plotWidth > 0 /\ plotLeft <= x /\ x <= plotRight
            THEN /\ lastEvent = "hit"
                 /\ tooltipData.key =
                       Max(0, Min(chartDataLen - 1, ((x - plotLeft) * chartDataLen) \div plotWidth))
            ELSE /\ lastEvent = "miss"
                 /\ tooltipData = NoData

(***************************************************************************)
(* Properties of the stacked chart's aggregation (checked under SlotSpec)  *)
(***************************************************************************)
\* the aggregation has run
Aggregated == chart = "stacked" /\ Len(computed) = 1

\* what the records say, read off the data prop directly
RECURSIVE RecordSum(_, _, _, _)
RecordSum(records, i, dates, names) ==
    IF i > Len(records) THEN 0
    ELSE (IF /\ records[i].date # NoDate
             /\ NormalizeDate(records[i].date) \in dates
             /\ NameOrUnclassified(records[i].creativeName) \in names
          THEN records[i].profit ELSE 0) + RecordSum(records, i + 1, dates, names)
DataDates == {NormalizeDate(data[i].date) : i \in {j \in 1..Len(data) : data[j].date # NoDate}}
DataNames ==
    {NameOrUnclassified(data[i].creativeName) : i \in {j \in 1..Len(data) : data[j].date # NoDate}}
DaySum(date, name) == RecordSum(data, 1, {date}, {name})
RangeSum(name) == RecordSum(data, 1, DataDates, {name})
Gainers(date) == {n \in DataNames : DaySum(date, n) > 0}
Losers(date) == {n \in DataNames : DaySum(date, n) < 0}

\* the computed days and the slot entries of a day
Days == {computed[1].chartData[i] : i \in 1..Len(computed[1].chartData)}
SlotsOf(day) == {day.slots[i][2] : i \in 1..Len(day.slots)}
SlotKeys(day) == {day.slots[i][1] : i \in 1..Len(day.slots)}
RankOf(name) ==
    (CHOOSE i \in 1..Len(computed[1].sortedCreatives) : computed[1].sortedCreatives[i] = name) - 1

\* C11: slot ordering.  On every day a gaining creative of rank r (profit
\* descending) holds positive slot count - 1 - r, so the largest gain holds
\* the highest positive index; a losing creative of rank r (profit
\* descending) holds negative slot r, so negative slot 0 holds the loss
\* closest to zero.
C11_SlotOrdering ==
    Aggregated =>
        \A day \in Days :
            LET pos == Gainers(day.date)
                neg == Losers(day.date)
                above(group, n) == Cardinality({m \in group : DaySum(day.date, m) > DaySum(day.date, n)})
                notBelow(group, n) == Cardinality({m \in group : DaySum(day.date, m) >= DaySum(day.date, n)})
            IN  /\ \A e \in SlotsOf(day) :
                      /\ e.value = DaySum(day.date, e.name)
                      /\ e.side = "pos" =>
                            /\ above(pos, e.name) <= Cardinality(pos) - 1 - e.slotIndex
                            /\ Cardinality(pos) - 1 - e.slotIndex <= notBelow(pos, e.name) - 1
                      /\ e.side = "neg" =>
                            /\ above(neg, e.name) <= e.slotIndex
                            /\ e.slotIndex <= notBelow(neg, e.name) - 1
                /\ pos # {} =>
                      \E e \in SlotsOf(day) :
                          /\ e.side = "pos" /\ e.slotIndex = Cardinality(pos) - 1
                          /\ \A m \in pos : DaySum(day.date, m) <= e.value
                /\ neg # {} =>
                      \E e \in SlotsOf(day) :
                          /\ e.side = "neg" /\ e.slotIndex = 0
                          /\ \A m \in neg : DaySum(day.date, m) <= e.value
\* day profits [+2, +1, -1] give pos {1: +2, 0: +1}, neg {0: -1}
C11_Witness ==
    /\ Aggregated
    /\ \E day \in Days :
          {<<e.side, e.slotIndex, e.value>> : e \in SlotsOf(day)}
              = {<<"pos", 1, 2>>, <<"pos", 0, 1>>, <<"neg", 0, -1>>}

\* C12: slot occupancy.  Every day with a record is a day of the chart; on
\* it each creative whose summed profit is non-zero holds exactly one slot,
\* on the positive side if the sum is > 0 and on the negative side if < 0,
\* the indices of each side being 0..count-1 without repetition; a creative
\* whose records net to 0 holds no slot.
C12_SlotOccupancy ==
    Aggregated =>
        /\ {day.date : day \in Days} = DataDates
        /\ Cardinality(Days) = Cardinality(DataDates)
        /\ \A day \in Days :
              /\ \A n \in DataNames :
                    LET mine == {i \in 1..Len(day.slots) : day.slots[i][2].name = n}
                    IN  IF DaySum(day.date, n) = 0 THEN mine = {}
                        ELSE /\ Cardinality(mine) = 1
                             /\ \A i \in mine :
                                   day.slots[i][2].side = (IF DaySum(day.date, n) > 0 THEN "pos" ELSE "neg")
              /\ \A e \in SlotsOf(day) : e.name \in DataNames
              /\ \A i \in 1..Len(day.slots) :
                    day.slots[i][1] = <<day.slots[i][2].side, day.slots[i][2].slotIndex>>
              /\ {k[2] : k \in {q \in SlotKeys(day) : q[1] = "pos"}}
                    = 0..(Cardinality(Gainers(day.date)) - 1)
              /\ {k[2] : k \in {q \in SlotKeys(day) : q[1] = "neg"}}
                    = 0..(Cardinality(Losers(day.date)) - 1)
              /\ Len(day.slots) = Cardinality(Gainers(day.date)) + Cardinality(Losers(day.date))
\* a creative with records +1 and -1 on a day where another creative holds a slot
C12_Witness ==
    /\ Aggregated
    /\ \E day \in Days : \E n \in DataNames :
          /\ DaySum(day.date, n) = 0
          /\ \E i \in 1..Len(data) : /\ data[i].date # NoDate
                                     /\ NormalizeDate(data[i].date) = day.date
                                     /\ NameOrUnclassified(data[i].creativeName) = n
                                     /\ data[i].profit # 0
          /\ SlotsOf(day) # {}

\* C13: color assignment.  The creatives are ranked by their profit summed
\* over all days, descending, and a creative of rank r carries
\* palette[r mod 15] in every slot of every day where it appears.
C13_ColorAssignment ==
    Aggregated =>
        LET sorted == computed[1].sortedCreatives
        IN  /\ {sorted[i] : i \in 1..Len(sorted)} = DataNames
            /\ Len(sorted) = Cardinality(DataNames)
            /\ \A i, j \in 1..Len(sorted) : RangeSum(sorted[i]) > RangeSum(sorted[j]) => i < j
            /\ \A day \in Days : \A e \in SlotsOf(day) :
                  e.color = COLORS[(RankOf(e.name) % 15) + 1]
\* a creative of rank 15 or more, and a creative holding different slots on
\* two days
C13_Witness ==
    /\ Aggregated
    /\ \E day \in Days : \E e \in SlotsOf(day) : RankOf(e.name) >= 15
    /\ \E d1, d2 \in Days : \E e1 \in SlotsOf(d1) : \E e2 \in SlotsOf(d2) :
          /\ d1.date # d2.date
          /\ e1.name = e2.name
          /\ e1.slotIndex # e2.slotIndex

\* C14: slot cap.  At most 15 positive and 15 negative lanes are rendered;
\* a slot of index 15 or more has no lane (a slot below 15 has one), and
\* its profit still counts in the day's total and in the totals that rank
\* the creatives.
C14_SlotCap ==
    Aggregated =>
        /\ \A side \in {"pos", "neg"} : Cardinality(RenderedLanes(computed[1], side)) <= 15
        /\ \A day \in Days : \A e \in SlotsOf(day) :
              e.slotIndex \in RenderedLanes(computed[1], e.side) <=> e.slotIndex < 15
        /\ \A day \in Days : day.total = RecordSum(data, 1, {day.date}, DataNames)
        /\ \A n, m \in DataNames : RangeSum(n) > RangeSum(m) => RankOf(n) < RankOf(m)
\* a day with a slot of index 15 or more
C14_Witness ==
    /\ Aggregated
    /\ \E day \in Days : \E e \in SlotsOf(day) :
          /\ e.slotIndex >= 15
          /\ e.slotIndex \notin RenderedLanes(computed[1], e.side)
          /\ day.total # 0

(***************************************************************************)
(* Properties of the aggregation by creative (checked under AggSpec)       *)
(***************************************************************************)
GroupedByCreative == chart = "report" /\ Len(computed) = 1
Buckets == {computed[1][i] : i \in 1..Len(computed[1])}
AdsOf(name) == {i \in 1..Len(data) : NameOrUnclassified(data[i].creativeName) = name}
RECURSIVE FieldSum(_, _, _)
FieldSum(records, idx, field) ==
    IF idx = {} THEN 0
    ELSE LET i == CHOOSE j \in idx : TRUE
         IN  records[i][field] + FieldSum(records, idx \ {i}, field)
RECURSIVE BucketSum(_, _)
BucketSum(buckets, field) ==
    IF Len(buckets) = 0 THEN 0 ELSE Head(buckets)[field] + BucketSum(Tail(buckets), field)

\* C15: aggregation conservation.  The profits of the buckets add up to the
\* profits of the records and the adCounts add up to the number of records:
\* there is one bucket per creative name, it counts and sums exactly the
\* records of that name, and the records with an empty name are those of
\* the one unclassified bucket.
C15_Conservation ==
    GroupedByCreative =>
        /\ BucketSum(computed[1], "profit") = FieldSum(data, 1..Len(data), "profit")
        /\ BucketSum(computed[1], "adCount") = Len(data)
        /\ Cardinality(Buckets) = Len(computed[1])
        /\ \A g, h \in Buckets : g.creativeName = h.creativeName => g = h
        /\ \A g \in Buckets :
              /\ g.adCount = Cardinality(AdsOf(g.creativeName))
              /\ g.adCount >= 1
              /\ g.profit = FieldSum(data, AdsOf(g.creativeName), "profit")
        /\ \A i \in 1..Len(data) :
              data[i].creativeName = EmptyName =>
                  \E g \in Buckets : g.creativeName = Unclassified /\ i \in AdsOf(g.creativeName)
\* two records with an empty name and a named one, with profits that differ
C15_Witness ==
    /\ GroupedByCreative
    /\ Len(computed[1]) = 2
    /\ \E g \in Buckets : g.creativeName = Unclassified /\ g.adCount = 2 /\ g.profit = 0
    /\ \E g \in Buckets : g.creativeName # Unclassified /\ g.profit # 0

\* C16: zero-guard totality.  A bucket has cpa = 0 when its summed cv is 0,
\* cpm = 0 when its summed impressions are 0 and roas = 0 when its summed
\* cost is 0; otherwise cpa = cost / cv, cpm = cost / impressions * 1000 and
\* roas = revenue / cost * 100 of the summed values; no quotient has a zero
\* divisor.
C16_ZeroGuard ==
    GroupedByCreative =>
        \A g \in Buckets :
            LET sum(field) == FieldSum(data, AdsOf(g.creativeName), field)
            IN  /\ g.cpa = IF sum("cv") = 0 THEN Zero ELSE Quotient(sum("cost"), sum("cv"))
                /\ g.cpm = IF sum("impressions") = 0 THEN Zero
                           ELSE Quotient(sum("cost") * 1000, sum("impressions"))
                /\ g.roas = IF sum("cost") = 0 THEN Zero
                            ELSE Quotient(sum("revenue") * 100, sum("cost"))
                /\ g.cpa.den # 0 /\ g.cpm.den # 0 /\ g.roas.den # 0
\* a bucket with no conversions, one with no impressions and no cost, and
\* one where all three rates are quotients
C16_Witness ==
    /\ GroupedByCreative
    /\ \E g \in Buckets : g.cv = 0 /\ g.cost > 0 /\ g.cpa = Zero
    /\ \E g \in Buckets : g.impressions = 0 /\ g.cost = 0 /\ g.cv > 0 /\ g.cpm = Zero /\ g.roas = Zero
    /\ \E g \in Buckets : g.cpa.num > 0 /\ g.cpm.num > 0 /\ g.roas.num > 0

(***************************************************************************)
(* Properties of the bubble points (checked under MatrixSpec)              *)
(***************************************************************************)
Mapped == chart = "matrix" /\ Len(computed) = 1
Points == {computed[1].points[i] : i \in 1..Len(computed[1].points)}
Creatives == {data[i] : i \in 1..Len(data)}
PointOf(c) == {p \in Points : p.name = c.name}
ProfitsOf(group) == {c.profit : c \in group}
Least(S) == CHOOSE v \in S : \A w \in S : v <= w
Greatest(S) == CHOOSE v \in S : \A w \in S : v >= w
\* lo + (hi - lo) * (profit - least) / (greatest - least), or mid on no span
Linear(profit, S, lo, hi, mid) ==
    IF Greatest(S) = Least(S) THEN Whole(mid)
    ELSE Frac(lo * (Greatest(S) - Least(S)) + (hi - lo) * (profit - Least(S)),
              Greatest(S) - Least(S))

\* C17: matrix clamping.  Every bubble point, stalled losers included, has
\* x and y in [-100, 100] and z in [0.5, 2.0], also for a creative far
\* above the mean CV or ROAS; a mean ROAS of 0 gives z = 1.
C17_Clamping ==
    Mapped =>
        /\ \A p \in Points :
              /\ FracLeq(Whole(-100), p.x) /\ FracLeq(p.x, Whole(100))
              /\ FracLeq(Whole(-100), p.y) /\ FracLeq(p.y, Whole(100))
              /\ FracLeq(Frac(1, 2), p.z) /\ FracLeq(p.z, Whole(2))
              /\ p.x.den > 0 /\ p.y.den > 0 /\ p.z.den > 0
        /\ computed[1].avgROAS.num = 0 => \A p \in Points : p.cv > 0 => FracEq(p.z, Whole(1))
\* an outlier whose x and z are cut at 100 and 2.0, and an ordinary creative
\* whose z is raised to 0.5
C17_Witness ==
    /\ Mapped
    /\ \E p \in Points :
          /\ FracEq(p.x, Whole(100)) /\ FracEq(p.z, Whole(2))
          /\ p.cv * computed[1].avgCV.den > 3 * computed[1].avgCV.num
    /\ \E p \in Points : p.cv > 0 /\ FracEq(p.z, Frac(1, 2))

\* C18 (as claimed): matrix y mapping.  Among the creatives with cv > 0,
\* those with profit > 0 are mapped linearly from [least positive profit,
\* greatest profit] to [5, 95] and those with profit < 0 from [greatest
\* loss, smallest loss] to [-95, -5]; a group of equal profits is mapped to
\* 50 or -50.
C18_AsClaimed ==
    Mapped =>
        LET gainers == {c \in Creatives : c.cv > 0 /\ c.profit > 0}
            losers == {c \in Creatives : c.cv > 0 /\ c.profit < 0}
        IN  /\ \A c \in gainers :
                  \E p \in PointOf(c) : FracEq(p.y, Linear(c.profit, ProfitsOf(gainers), 5, 95, 50))
            /\ \A c \in losers :
                  \E p \in PointOf(c) : FracEq(p.y, Linear(c.profit, ProfitsOf(losers), -95, -5, -50))

\* C18 (amended): matrix y mapping.  Among the plotted creatives (cv > 0
\* and cost > 0), those with profit >= 0 are mapped linearly from [least
\* profit of the group, greatest profit] to [5, 95] and those with
\* profit < 0 from [greatest loss, smallest loss] to [-95, -5], in the order
\* of their profits; a group of equal profits is mapped to 50 or -50.  A
\* creative with cv > 0 and no cost has no point.
C18_YMapping ==
    Mapped =>
        LET plotted == {c \in Creatives : c.cv > 0 /\ c.cost > 0}
            gainers == {c \in plotted : c.profit >= 0}
            losers == {c \in plotted : c.profit < 0}
        IN  /\ \A c \in gainers :
                  /\ Cardinality(PointOf(c)) = 1
                  /\ \A p \in PointOf(c) : FracEq(p.y, Linear(c.profit, ProfitsOf(gainers), 5, 95, 50))
            /\ \A c \in losers :
                  /\ Cardinality(PointOf(c)) = 1
                  /\ \A p \in PointOf(c) : FracEq(p.y, Linear(c.profit, ProfitsOf(losers), -95, -5, -50))
            /\ \A c \in Creatives : c.cv > 0 /\ c.cost = 0 => PointOf(c) = {}
            /\ \A p, q \in Points :
                  p.cv > 0 /\ q.cv > 0 /\ p.profit < q.profit => FracLeq(p.y, q.y)
\* a break-even creative at y = 5 below a gaining one at y = 95, and two
\* losses at -95 and -5
C18_Witness ==
    /\ Mapped
    /\ \E p, q \in Points :
          /\ p.cv > 0 /\ p.profit = 0 /\ FracEq(p.y, Whole(5))
          /\ q.cv > 0 /\ q.profit > 0 /\ FracEq(q.y, Whole(95))
    /\ \/ \E p, q \in Points :
             /\ p.cv > 0 /\ FracEq(p.y, Whole(-95))
             /\ q.cv > 0 /\ FracEq(q.y, Whole(-5))
       \/ \E p \in Points : p.cv > 0 /\ FracEq(p.y, Whole(-50))

\* C19 (as claimed): stalled losers.  Every creative with cv = 0 and
\* profit < 0 has a bubble at x = -95 with y in [-100, -50], in the order of
\* the profits; when all of them have the same profit the bubble is at
\* y = -75.
C19_AsClaimed ==
    Mapped =>
        LET stalled == {c \in Creatives : c.cv = 0 /\ c.profit < 0}
        IN  \A c \in stalled :
                \E p \in PointOf(c) :
                    /\ FracEq(p.x, Whole(-95))
                    /\ FracEq(p.y, Linear(c.profit, ProfitsOf(stalled), -100, -50, -75))

\* C19 (amended): stalled losers.  Every creative with cv = 0, cost > 0 and
\* profit < 0 has one bubble, at x = -95 with y in [-100, -50], the greatest
\* loss at -100 and the smallest at -50; when all of them have the same
\* profit the bubble is at y = -75.  A creative with cv = 0 and no cost has
\* no bubble.
C19_StalledLosers ==
    Mapped =>
        LET stalled == {c \in Creatives : c.cv = 0 /\ c.cost > 0 /\ c.profit < 0}
        IN  /\ \A c \in stalled :
                  /\ Cardinality(PointOf(c)) = 1
                  /\ \A p \in PointOf(c) :
                        /\ FracEq(p.x, Whole(-95))
                        /\ FracLeq(Whole(-100), p.y) /\ FracLeq(p.y, Whole(-50))
                        /\ FracEq(p.y, Linear(c.profit, ProfitsOf(stalled), -100, -50, -75))
            /\ \A c \in Creatives : c.cv = 0 /\ c.cost = 0 => PointOf(c) = {}
\* a single stalled loser with profit -200 at (-95, -75)
C19_Witness ==
    /\ Mapped
    /\ Cardinality({c \in Creatives : c.cv = 0 /\ c.profit < 0}) = 1
    /\ \E p \in Points :
          p.cv = 0 /\ p.profit = -200 /\ FracEq(p.x, Whole(-95)) /\ FracEq(p.y, Whole(-75))

(***************************************************************************)
(* Position of the tooltip panel (checked under Spec)                      *)
(***************************************************************************)
\* C20 (as claimed): tooltip position clamping.  After every position
\* update the tooltip panel lies inside the container: its left and top
\* edges are not negative and its right edge is not beyond the container's
\* width.
C20_Clamped ==
    tooltipVisible /\ lastEvent = "hit" =>
        /\ tooltipPos[1] >= 0 /\ tooltipPos[2] >= 0
        /\ tooltipPos[1] + PanelWidth <= ContainerWidth

(***************************************************************************)
(* Properties of the charts under resizing (checked under ResizeSpec)      *)
(***************************************************************************)
\* the plot area derived from the stored container size is empty
GeometryUnavailable ==
    IF chart = "matrix"
    THEN ~MatrixGeometryValid(containerSize)
    ELSE StackedChartWidth(containerSize.width) <= 0

\* the step ran a pointer move past the pin, the throttle and the data check
MoveProcessed == lastEvent' \in {"noGeometry", "miss", "hit"}

\* C21 (as claimed): geometry unavailable.  A pointer move processed while
\* the derived plot area is empty never shows the tooltip, changes neither
\* its content nor its position, and is handled like any other miss: it
\* schedules the hide of the grace period.
C21_NoHitStep ==
    MoveProcessed /\ GeometryUnavailable =>
        /\ tooltipVisible' = tooltipVisible
        /\ UNCHANGED <<tooltipData, tooltipPos, lastHovered>>
        /\ hideTimeoutRef' = now + GraceMs
        /\ pendingTimers' = {now + GraceMs}
C21_GeometryUnavailable == [][C21_NoHitStep]_vars

\* C22 (as claimed): live container size.  Every executed hit-test of the
\* stacked chart works on the width the container has at the moment of the
\* pointer move: the stored width it reads is the laid-out width, and a hit
\* reports the column the pointer is over at the laid-out width.
C22_LiveStep ==
    chart = "stacked" /\ MoveProcessed =>
        /\ containerSize.width = layout.width
        /\ lastEvent' = "hit" =>
               /\ ~Outside(hitMouse'[1], layout.width)
               /\ lastHovered' = ClampedIndex(hitMouse'[1], layout.width, chartDataLen)
C22_LiveSize == [][C22_LiveStep]_vars

\* C23: resize debouncing.  Every notification of the observer leads to a
\* recompute of the stored size: the matrix chart stores the observed size
\* in the callback, the stacked chart leaves exactly one frame callback
\* pending, which carries the observed width and stores it when it runs.
\* At most one frame callback is pending at any time, and when none is
\* pending the stored width is the width observed last.
C23_Notified ==
    lastEvent' = "observed" =>
        IF chart = "matrix"
        THEN containerSize' = lastReported' /\ frames' = {}
        ELSE frames' = {[id |-> frameId', width |-> lastReported'.width]}
C23_FrameStores ==
    lastEvent' = "frame" =>
        \E f \in frames : frames' = frames \ {f} /\ containerSize'.width = f.width
C23_Quiescent ==
    frames = {} =>
        IF chart = "matrix"
        THEN \/ containerSize = lastReported
             \/ lastReported.width = 0 /\ containerSize = layout
        ELSE containerSize.width = lastReported.width
C23_Debounce ==
    /\ [](Cardinality(frames) <= 1 /\ C23_Quiescent)
    /\ [][C23_Notified]_vars
    /\ [][C23_FrameStores]_vars
\* a burst of three notifications to the stacked chart of which only the
\* last frame callback ran
C23_Witness ==
    /\ chart = "stacked"
    /\ lastEvent = "frame"
    /\ frameSeq = 4
    /\ frames = {}
    /\ lastReported.width = 410
    /\ containerSize.width = 410
    /\ lastHitTest = NoTime

(***************************************************************************)
(* Properties of the columns of the stacked chart (checked under SlotSpec) *)
(***************************************************************************)
ColumnDates == [i \in 1..Len(computed[1].chartData) |-> computed[1].chartData[i].date]
Earliest == CHOOSE d \in DataDates : \A e \in DataDates : d <= e
Latest == CHOOSE d \in DataDates : \A e \in DataDates : d >= e

Rendered == chart = "tab2" /\ Len(computed) = 1

\* a record whose date is absent or unparseable; a record of the active range
BadDated(c) == c.date = NoDate \/ ~IsISODate(NormalizeDate(c.date))
InRange(c) ==
    /\ ~BadDated(c)
    /\ NormalizeDate(c.date) >= data.range.from
    /\ NormalizeDate(c.date) <= data.range.to

\* the creatives of the data prop selected by a condition, and their sums
RowsWhere(name, dates, bad) ==
    {i \in 1..Len(data.creatives) :
        LET c == data.creatives[i]
        IN  /\ c.creativeName = name
            /\ \/ bad /\ BadDated(c)
               \/ InRange(c) /\ NormalizeDate(c.date) \in dates}
RECURSIVE RowSum(_, _)
RowSum(rows, field) ==
    IF rows = {} THEN 0
    ELSE LET i == CHOOSE j \in rows : TRUE
         IN  data.creatives[i][field] + RowSum(rows \ {i}, field)
RowNames == {data.creatives[i].creativeName : i \in 1..Len(data.creatives)}
RowDates == 1..(Garbled - 1)
TotalsOf(name) ==
    {computed[1].aggregatedByCreative[i] : i \in
        {j \in 1..Len(computed[1].aggregatedByCreative) :
            computed[1].aggregatedByCreative[j].creativeName = name}}

\* C25 (as claimed): bad dates.  A record whose date is absent or
\* unparseable opens no day column and adds to no day's total, yet its
\* impressions, cv, cost, revenue and profit are counted in the totals of
\* its creative, together with those of the records of the active range.
C25_BadDates ==
    Rendered =>
        /\ \A k \in 1..Len(computed[1].daily.chartData) :
               LET day == computed[1].daily.chartData[k]
               IN  /\ IsISODate(day.date)
                   /\ day.total = RowSum(UNION {RowsWhere(n, {day.date}, FALSE) : n \in RowNames},
                                         "profit")
        /\ \A n \in RowNames :
               LET rows == RowsWhere(n, RowDates, TRUE)
               IN  IF rows = {} THEN TotalsOf(n) = {}
                   ELSE \E t \in TotalsOf(n) :
                           /\ TotalsOf(n) = {t}
                           /\ \A f \in {"impressions", "cv", "cost", "revenue", "profit"} :
                                  t[f] = RowSum(rows, f)

(***************************************************************************)
(* Further properties of the tooltip controller (checked under Spec)       *)
(***************************************************************************)
\* C26 (as claimed): no stale content.  After a processed hit the content
\* displayed for the matched point comes from the current aggregation, also
\* when the data was aggregated anew while the tooltip was showing and the
\* pointer keeps hitting the same identity.
C26_NoStaleContent ==
    lastEvent = "hit" /\ tooltipVisible => tooltipData.ver = dataVersion

(***************************************************************************)
(* Properties of the stacked chart's tooltip (checked under SlotSpec)      *)
(***************************************************************************)
\* the tooltip of a day is showing; the day, its slot entries on one side,
\* those with a lane, and the items listed
DayShown == chart = "stacked" /\ Len(computed) = 2
ShownSide(side) == {e \in SlotsOf(computed[2].dayData) : e.side = side}
Laned(side) == {e \in ShownSide(side) : e.slotIndex \in RenderedLanes(computed[1], side)}
Listed == {computed[2].tooltipItems[i] : i \in 1..Len(computed[2].tooltipItems)}

\* C27 (as claimed): the top of the stack survives the cap.  On a day with
\* gaining creatives, however many, a creative with the largest gain has a
\* lane, its bar is the topmost of the day's positive stack, and it is
\* listed in the day's tooltip; no creative without a lane gains more than
\* one with a lane.
C27_TopSurvives ==
    DayShown /\ ShownSide("pos") # {} =>
        /\ \E e \in Laned("pos") :
               /\ \A o \in ShownSide("pos") : o.value <= e.value
               /\ \A o \in Laned("pos") : o.slotIndex <= e.slotIndex
               /\ e \in Listed
        /\ \A r \in ShownSide("pos") \ Laned("pos") : \A k \in Laned("pos") : r.value <= k.value

\* C28 (as claimed): tooltip total.  The items listed for a day are exactly
\* the creatives whose profit of that day is not 0, one item each with
\* that profit, in descending order of profit, and the total shown, the sum
\* of the listed items, is the day's total field.
C28_TooltipTotal ==
    DayShown =>
        LET day == computed[2].dayData
            items == computed[2].tooltipItems
        IN  /\ {<<items[i].name, items[i].value>> : i \in 1..Len(items)}
                  = {<<n, DaySum(day.date, n)>> : n \in Gainers(day.date) \cup Losers(day.date)}
            /\ Len(items) = Cardinality(Gainers(day.date) \cup Losers(day.date))
            /\ \A i, j \in 1..Len(items) : i < j => items[i].value >= items[j].value
            /\ computed[2].tooltipTotal = TooltipTotal(items)
            /\ computed[2].tooltipTotal = day.total

\* C29: hide-timer cancellation.  At every moment at most one hide timer is
\* pending, the one hideTimeoutRef holds.  A processed hit and the pointer
\* entering the tooltip panel leave no timer pending, so a hide scheduled
\* before them never runs: whenever a timer hides the tooltip, it was
\* scheduled after the last such event.
C29_OnePending == Cardinality(pendingTimers) <= 1 /\ pendingTimers \subseteq {hideTimeoutRef}
C29_Cancelled ==
    lastEvent' \in {"hit", "tooltipEnter"} =>
        /\ pendingTimers' = {}
        /\ hideTimeoutRef' = NoTimer
        /\ tooltipVisible'
C29_NoLateHide ==
    tooltipVisible /\ ~tooltipVisible' =>
        /\ hideCause \in {"miss", "leave", "unpin"}
        /\ pendingTimers = {hideTimeoutRef}
        /\ hideTimeoutRef = now
C29_Cancellation ==
    /\ []C29_OnePending
    /\ [][C29_Cancelled]_vars
    /\ [][C29_NoLateHide]_vars
\* a hit cancelled a pending hide, and the tooltip is still displayed when
\* the grace period of any hide scheduled before that hit is over
C29_Witness ==
    /\ hideCause = "cancelled"
    /\ pointer = "chart"
    /\ tooltipVisible
    /\ pendingTimers = {}
    /\ now >= lastHitTest + GraceMs

(***************************************************************************)
(* Properties of the quadrants (checked under MatrixSpec)                  *)
(***************************************************************************)
\* the creatives with conversions that are plotted, read off the data prop
Converting == {i \in 1..Len(data) : data[i].cv > 0 /\ data[i].cost > 0}
RECURSIVE CvSum(_)
CvSum(idx) ==
    IF idx = {} THEN 0
    ELSE LET i == CHOOSE j \in idx : TRUE IN data[i].cv + CvSum(idx \ {i})
AtLeastMeanCV(cv) == cv * Cardinality(Converting) >= CvSum(Converting)
PointAt(i) == computed[1].points[i]

\* C30: quadrant and position agree.  A bubble of a creative with cv > 0 has
\* quadrant 1 or 2 exactly when x >= 0, which is exactly when its cv is at
\* least the mean cv, and quadrant 1 or 3 exactly when y > 0, which is
\* exactly when its profit is >= 0; a bubble of a creative with cv = 0 has
\* quadrant 4, x < 0 and y < 0; the four quadrant counts count the bubbles
\* of each quadrant and sum to the number of bubbles.
C30_QuadrantAgreement ==
    Mapped =>
        /\ \A i \in 1..Len(computed[1].points) :
               LET p == PointAt(i)
               IN  /\ p.quadrant \in 1..4
                   /\ p.cv > 0 =>
                          /\ p.quadrant \in {1, 2} <=> FracLeq(Whole(0), p.x)
                          /\ p.quadrant \in {1, 2} <=> AtLeastMeanCV(p.cv)
                          /\ p.quadrant \in {1, 3} <=> FracLess(Whole(0), p.y)
                          /\ p.quadrant \in {1, 3} <=> p.profit >= 0
                   /\ p.cv = 0 =>
                          /\ p.quadrant = 4
                          /\ FracLess(p.x, Whole(0))
                          /\ FracLess(p.y, Whole(0))
        /\ \A q \in 1..4 :
               computed[1].counts[q]
                   = Cardinality({i \in 1..Len(computed[1].points) : PointAt(i).quadrant = q})
        /\ computed[1].counts[1] + computed[1].counts[2] + computed[1].counts[3]
               + computed[1].counts[4] = Len(computed[1].points)
\* a losing bubble exactly at the mean cv (x = 0, quadrant 2), a gaining one
\* and a bubble without conversions
C30_Witness ==
    /\ Mapped
    /\ \E i \in 1..Len(computed[1].points) :
          PointAt(i).cv > 0 /\ FracEq(PointAt(i).x, Whole(0)) /\ PointAt(i).quadrant = 2
    /\ \E i \in 1..Len(computed[1].points) : PointAt(i).cv > 0 /\ PointAt(i).quadrant = 1
    /\ \E i \in 1..Len(computed[1].points) : PointAt(i).cv = 0 /\ PointAt(i).quadrant = 4

====
